---- MODULE Spec2Model ----
(***************************************************************************)
(* Content graph construction of the MarginNote importer:                  *)
(*   ContentExtractor.extractAllContent  (union-find grouping, master       *)
(*   selection) followed by deduplicateContent (ContentDeduplicator).       *)
(*                                                                         *)
(* Text, note ids, hashtags and link ids are sequences of one-character   *)
(* strings (the code trims, measures, splits and scans them, and link ids  *)
(* found in text are looked up as note ids); << >> stands for both the     *)
(* empty string and undefined, which the code never tells apart (it only   *)
(* tests truthiness).  Topic ids, media hashes and enum values are only    *)
(* compared, and are TLA+ strings, "" standing for undefined.              *)
(***************************************************************************)
EXTENDS Integers, Sequences, FiniteSets, TLC

\* ------------------------------------------------------------------ bounds
MaxNotes == 3        \* note rows of one import
MaxRelations == 2    \* relations (group, external, link) among them

\* ------------------------------------------------------- sequence helpers
Has(seq, x) == \E i \in 1..Len(seq) : seq[i] = x

IndexOf(seq, x) == CHOOSE i \in 1..Len(seq) : seq[i] = x

Range(seq) == {seq[i] : i \in 1..Len(seq)}

\* ------------------------------------------------------------- UnionFind
\* parent and rank are Maps; keys is the insertion order of parent's keys,
\* parent[i] and rank[i] are the values stored under keys[i].
NewUnionFind == [keys |-> <<>>, parent |-> <<>>, rank |-> <<>>]

ParentOf(uf, x) == uf.parent[IndexOf(uf.keys, x)]

RankOf(uf, x) == uf.rank[IndexOf(uf.keys, x)]

RECURSIVE RootOf(_, _)
RootOf(uf, x) == IF ParentOf(uf, x) = x THEN x ELSE RootOf(uf, ParentOf(uf, x))

\* the nodes find(x) visits before it reaches the root
RECURSIVE PathOf(_, _)
PathOf(uf, x) == IF ParentOf(uf, x) = x THEN {} ELSE {x} \cup PathOf(uf, ParentOf(uf, x))

SetParent(uf, x, p) ==
    [uf EXCEPT !.parent = [i \in 1..Len(uf.keys) |-> IF uf.keys[i] = x THEN p ELSE uf.parent[i]]]

SetRank(uf, x, r) ==
    [uf EXCEPT !.rank = [i \in 1..Len(uf.keys) |-> IF uf.keys[i] = x THEN r ELSE uf.rank[i]]]

\* find(x): registers an unseen x as its own root; otherwise returns the root
\* and re-parents every node on the path to it (path compression).
find(uf, x) ==
    IF ~Has(uf.keys, x)
    THEN [uf |-> [keys |-> Append(uf.keys, x),
                  parent |-> Append(uf.parent, x),
                  rank |-> Append(uf.rank, 0)],
          root |-> x]
    ELSE LET r == RootOf(uf, x)
             path == PathOf(uf, x)
         IN [uf |-> [uf EXCEPT !.parent =
                        [i \in 1..Len(uf.keys) |->
                            IF uf.keys[i] \in path THEN r ELSE uf.parent[i]]],
             root |-> r]

\* union(x, y) by rank
union(uf, x, y) ==
    LET fx == find(uf, x)
        fy == find(fx.uf, y)
        u == fy.uf
        rootX == fx.root
        rootY == fy.root
        rankX == RankOf(u, rootX)
        rankY == RankOf(u, rootY)
    IN IF rootX = rootY THEN u
       ELSE IF rankX < rankY THEN SetParent(u, rootX, rootY)
       ELSE IF rankX > rankY THEN SetParent(u, rootY, rootX)
       ELSE SetRank(SetParent(u, rootY, rootX), rootX, rankX + 1)

\* getGroups(): one array per root, arrays and their members in the
\* insertion order of parent's keys.  acc = [uf, roots, members].
RECURSIVE GetGroupsFrom(_, _)
GetGroupsFrom(acc, i) ==
    IF i > Len(acc.uf.keys) THEN acc
    ELSE LET node == acc.uf.keys[i]
             f == find(acc.uf, node)
             known == Has(acc.roots, f.root)
             roots == IF known THEN acc.roots ELSE Append(acc.roots, f.root)
             members == IF known THEN acc.members ELSE Append(acc.members, <<>>)
             k == IndexOf(roots, f.root)
         IN GetGroupsFrom([uf |-> f.uf,
                           roots |-> roots,
                           members |-> [members EXCEPT ![k] = Append(@, node)]],
                          i + 1)

getGroups(uf) == GetGroupsFrom([uf |-> uf, roots |-> <<>>, members |-> <<>>], 1)

\* ---------------------------------------------------------------- strings
\* the printable ASCII characters, from the blank (code 32) to the tilde;
\* U+0060 is the grave accent, one character
Ascii ==
    <<
      " ", "!", "\"", "#", "$", "%", "&", "'", "(", ")", "*", "+", ",", "-", ".", "/",
      "0", "1", "2", "3", "4", "5", "6", "7", "8", "9", ":", ";", "<", "=", ">", "?",
      "@", "A", "B", "C", "D", "E", "F", "G", "H", "I", "J", "K", "L", "M", "N", "O",
      "P", "Q", "R", "S", "T", "U", "V", "W", "X", "Y", "Z", "[", "\\", "]", "^", "_",
      "U+0060", "a", "b", "c", "d", "e", "f", "g", "h", "i", "j", "k", "l", "m", "n", "o",
      "p", "q", "r", "s", "t", "u", "v", "w", "x", "y", "z", "{", "|", "}", "~">>

Hex == <<"0", "1", "2", "3", "4", "5", "6", "7", "8", "9", "A", "B", "C", "D", "E", "F">>

\* String.fromCharCode(cu): a string is a sequence of UTF-16 code units; a
\* code unit outside printable ASCII, tab, line feed, form feed and
\* carriage return is named by its four hexadecimal digits
CharOf(cu) ==
    IF cu >= 32 /\ cu <= 126 THEN Ascii[cu - 31]
    ELSE IF cu = 9 THEN "\t"
    ELSE IF cu = 10 THEN "\n"
    ELSE IF cu = 12 THEN "\f"
    ELSE IF cu = 13 THEN "\r"
    ELSE "U+" \o Hex[((cu \div 4096) % 16) + 1] \o Hex[((cu \div 256) % 16) + 1]
              \o Hex[((cu \div 16) % 16) + 1] \o Hex[(cu % 16) + 1]

\* String.prototype.charCodeAt
CodeIn(printable, c) ==
    IF \E i \in 1..Len(printable) : printable[i] = c
    THEN 31 + CHOOSE i \in 1..Len(printable) : printable[i] = c
    ELSE CHOOSE cu \in 0..65535 : CharOf(cu) = c

CharCode(c) == CodeIn(Ascii, c)

\* the characters of the code units from first to last
CharRange(first, last) == {CharOf(cu) : cu \in first..last}

\* WhiteSpace and LineTerminator of ECMAScript: what trim() removes and
\* what the class \s matches
WhiteSpace ==
    {"\t", "\n", "U+000B", "\f", "\r", " ", "U+00A0", "U+1680", "U+2000", "U+2001",
     "U+2002", "U+2003", "U+2004", "U+2005", "U+2006", "U+2007", "U+2008", "U+2009",
     "U+200A", "U+2028", "U+2029", "U+202F", "U+205F", "U+3000", "U+FEFF"}

IsSpace(c) == c \in WhiteSpace

RECURSIVE TrimStart(_)
TrimStart(s) == IF s # <<>> /\ IsSpace(Head(s)) THEN TrimStart(Tail(s)) ELSE s

RECURSIVE TrimEnd(_)
TrimEnd(s) ==
    IF s # <<>> /\ IsSpace(s[Len(s)]) THEN TrimEnd(SubSeq(s, 1, Len(s) - 1)) ELSE s

\* String.prototype.trim
Trim(s) == TrimEnd(TrimStart(s))

StartsWith(s, p) == Len(s) >= Len(p) /\ SubSeq(s, 1, Len(p)) = p

\* Array.prototype.join('\n')
RECURSIVE JoinLines(_)
JoinLines(texts) ==
    IF texts = <<>> THEN <<>>
    ELSE IF Len(texts) = 1 THEN texts[1]
    ELSE texts[1] \o <<"\n">> \o JoinLines(Tail(texts))

\* String.prototype.split('\n'); cur is the line being read, which runs up
\* to the first line break of s
RECURSIVE SplitFrom(_, _)
SplitFrom(s, cur) ==
    LET breaks == {i \in 1..Len(s) : s[i] = "\n"}
    IN IF breaks = {} THEN <<cur \o s>>
       ELSE LET first == CHOOSE i \in breaks : \A j \in breaks : i <= j
            IN <<cur \o SubSeq(s, 1, first - 1)>>
                   \o SplitFrom(SubSeq(s, first + 1, Len(s)), <<>>)

SplitLines(s) == SplitFrom(s, <<>>)

\* Array.prototype.filter keeping the first occurrence of every value
RECURSIVE FirstOccurrences(_)
FirstOccurrences(seq) ==
    IF seq = <<>> THEN <<>>
    ELSE LET init == FirstOccurrences(SubSeq(seq, 1, Len(seq) - 1))
             last == seq[Len(seq)]
         IN IF Has(init, last) THEN init ELSE Append(init, last)

\* ------------------------------------------------------------ MNBookNote
NoPic == "none"          \* excerptPic undefined
EmptyPic == "empty"      \* new MNExcerptPicImpl(): neither rect nor pageNo
RegionPic == "region"    \* an excerptPic with a rect or a page number

\* MNExcerptPic.hasContent
PicHasContent(pic) == pic = RegionPic

\* MNBookNoteImpl.isMergedContent / isOriginalContent
isMergedContent(note) == note.groupNoteId # <<>>

isOriginalContent(note) == note.groupNoteId = <<>>

\* MNBookNoteImpl.getAllText
getAllText(note) ==
    JoinLines(SelectSeq(<<note.excerptText, note.notesText, note.noteTitle>>
                            \o note.formattedText,
                        LAMBDA t : Trim(t) # <<>>))

\* ContentExtractor.notes: a Map from noteId to note, in insertion order
NotesHas(notes, id) == \E i \in 1..Len(notes) : notes[i].noteId = id

NotesIndex(notes, id) == CHOOSE i \in 1..Len(notes) : notes[i].noteId = id

NotesGet(notes, id) == notes[NotesIndex(notes, id)]

\* Map.prototype.set: a key already present keeps its place
NotesSet(notes, note) ==
    IF NotesHas(notes, note.noteId)
    THEN [notes EXCEPT ![NotesIndex(notes, note.noteId)] = note]
    ELSE Append(notes, note)

\* ---------------------------------------------------- TopicClassification
PROJECT == "project"
BOOK == "book"
REVIEW_TOPIC == "review_topic"
GENERAL == "general"
UNKNOWN == "unknown"
NoTopicType == ""        \* getTopicType's undefined

NewTopicClassification ==
    [projectTopics |-> {}, bookTopics |-> {}, reviewTopics |-> {}, generalTopics |-> {}]

addTopic(tc, topic) ==
    IF topic.topicType = PROJECT THEN [tc EXCEPT !.projectTopics = @ \cup {topic.topicId}]
    ELSE IF topic.topicType = BOOK THEN [tc EXCEPT !.bookTopics = @ \cup {topic.topicId}]
    ELSE IF topic.topicType = REVIEW_TOPIC THEN [tc EXCEPT !.reviewTopics = @ \cup {topic.topicId}]
    ELSE [tc EXCEPT !.generalTopics = @ \cup {topic.topicId}]

getTopicType(tc, topicId) ==
    IF topicId \in tc.projectTopics THEN PROJECT
    ELSE IF topicId \in tc.bookTopics THEN BOOK
    ELSE IF topicId \in tc.reviewTopics THEN REVIEW_TOPIC
    ELSE IF topicId \in tc.generalTopics THEN GENERAL
    ELSE NoTopicType

\* MNTopicImpl.fromDatabaseRow: the topic type read off the forum-owner blob.
\* forumOwner is NoOwner (column empty), BadOwner (JSON.parse throws) or the
\* set of marker fields the parsed object carries.
NoOwner == {"<absent>"}
BadOwner == {"<unparsable>"}

TopicFromRow(row) ==
    [topicId |-> row.topicId,
     topicType |-> IF row.forumOwner = NoOwner THEN UNKNOWN
                   ELSE IF row.forumOwner = BadOwner THEN GENERAL
                   ELSE IF "projectTopic" \in row.forumOwner THEN PROJECT
                   ELSE IF "reviewTopic" \in row.forumOwner THEN REVIEW_TOPIC
                   ELSE IF "bookTopic" \in row.forumOwner THEN BOOK
                   ELSE GENERAL]

\* --------------------------------------------------------- TextProcessor
Hash == "#"
WideHash == "U+FF03"     \* the full-width number sign, one character

IsHash(c) == c \in {Hash, WideHash}

\* 'marginnote4app://note/'
LinkPrefix ==
    <<"m","a","r","g","i","n","n","o","t","e","4","a","p","p",":","/","/","n","o","t","e","/">>

\* [A-Za-z0-9\-]
IdChars ==
    {"A","B","C","D","E","F","G","H","I","J","K","L","M","N","O","P","Q","R","S","T","U",
     "V","W","X","Y","Z","a","b","c","d","e","f","g","h","i","j","k","l","m","n","o","p",
     "q","r","s","t","u","v","w","x","y","z","0","1","2","3","4","5","6","7","8","9","-"}

\* [^\s#＃\n\r]
IsTagChar(c) == ~IsSpace(c) /\ ~IsHash(c)


\* trimmed.replace(/^[#＃]+/, '')
RECURSIVE StripHashes(_)
StripHashes(s) == IF s # <<>> /\ IsHash(Head(s)) THEN StripHashes(Tail(s)) ELSE s

\* the end of the longest run of tag characters that starts at i
TagRunEnd(s, i) ==
    CHOOSE j \in i..Len(s) :
        /\ \A k \in (i + 1)..j : IsTagChar(s[k])
        /\ j < Len(s) => ~IsTagChar(s[j + 1])

\* matchAll(HASHTAG_PATTERN): the captures of /[#＃]([^\s#＃\n\r]+)/g from i on
RECURSIVE InlineHashtags(_, _)
InlineHashtags(s, i) ==
    LET starts == {k \in i..(Len(s) - 1) : IsHash(s[k]) /\ IsTagChar(s[k + 1])}
    IN IF starts = {} THEN <<>>
       ELSE LET first == CHOOSE k \in starts : \A m \in starts : k <= m
                j == TagRunEnd(s, first + 1)
            IN <<SubSeq(s, first + 1, j)>> \o InlineHashtags(s, j + 1)

IsIdChar(c) == c \in IdChars

\* the end of the longest run of id characters that starts at i
IdRunEnd(s, i) ==
    CHOOSE j \in i..Len(s) :
        /\ \A k \in (i + 1)..j : IsIdChar(s[k])
        /\ j < Len(s) => ~IsIdChar(s[j + 1])

\* matchAll(MARGINNOTE_LINK_PATTERN): the captures from i on
RECURSIVE InlineLinks(_, _)
InlineLinks(s, i) ==
    LET starts == {m \in i..(Len(s) - Len(LinkPrefix)) :
                      /\ SubSeq(s, m, m + Len(LinkPrefix) - 1) = LinkPrefix
                      /\ IsIdChar(s[m + Len(LinkPrefix)])}
    IN IF starts = {} THEN <<>>
       ELSE LET first == CHOOSE m \in starts : \A n \in starts : m <= n
                k == first + Len(LinkPrefix)
                j == IdRunEnd(s, k)
            IN <<SubSeq(s, k, j)>> \o InlineLinks(s, j + 1)

RECURSIVE HashtagsOfLines(_)
HashtagsOfLines(lines) ==
    IF lines = <<>> THEN <<>>
    ELSE LET trimmed == Trim(Head(lines))
             found == IF trimmed # <<>> /\ IsHash(trimmed[1])
                      THEN LET hashtag == Trim(StripHashes(trimmed))
                           IN IF hashtag # <<>> THEN <<hashtag>> ELSE <<>>
                      ELSE InlineHashtags(trimmed, 1)
         IN found \o HashtagsOfLines(Tail(lines))

extractHashtags(text) ==
    IF text = <<>> THEN <<>> ELSE FirstOccurrences(HashtagsOfLines(SplitLines(text)))

RECURSIVE LinksOfLines(_)
LinksOfLines(lines) ==
    IF lines = <<>> THEN <<>>
    ELSE LET trimmed == Trim(Head(lines))
             found == IF StartsWith(trimmed, LinkPrefix)
                      THEN LET noteId == SubSeq(trimmed, Len(LinkPrefix) + 1, Len(trimmed))
                           IN IF noteId # <<>> THEN <<noteId>> ELSE <<>>
                      ELSE InlineLinks(trimmed, 1)
         IN found \o LinksOfLines(Tail(lines))

extractMarginNoteLinks(text) ==
    IF text = <<>> THEN <<>> ELSE FirstOccurrences(LinksOfLines(SplitLines(text)))

extractOtherText(text, excludeHashtags, excludeLinks) ==
    IF text = <<>> THEN <<>>
    ELSE LET hashtagSet == {<<Hash>> \o t : t \in Range(excludeHashtags)}
                               \cup {<<WideHash>> \o t : t \in Range(excludeHashtags)}
             linkSet == {LinkPrefix \o l : l \in Range(excludeLinks)}
             Kept(line) ==
                 LET trimmed == Trim(line)
                 IN /\ trimmed # <<>>
                    /\ trimmed \notin hashtagSet
                    /\ trimmed \notin linkSet
                    /\ ~IsHash(trimmed[1])
                    /\ ~StartsWith(trimmed, LinkPrefix)
         IN SelectSeq(SplitLines(text), Kept)

\* the number of characters of s that are in chars: s.match(/[...]/g).length
CountIn(s, chars) == Cardinality({i \in 1..Len(s) : s[i] \in chars})

\* CJK_PATTERN, JAPANESE_PATTERN, KOREAN_PATTERN, LATIN_PATTERN
CjkChars == CharRange(19968, 40959) \cup CharRange(13312, 19903) \cup CharRange(63744, 64255)
JapaneseChars == CharRange(12352, 12543)
KoreanChars == CharRange(44032, 55215)
UpperChars == CharRange(65, 90)
LowerChars == CharRange(97, 122)
LatinChars == UpperChars \cup LowerChars
DigitChars == CharRange(48, 57)

\* the class \w
WordChars == LatinChars \cup DigitChars \cup {"_"}

\* text.match(/\b[a-zA-Z]+\b/g).length: the runs of word characters that
\* hold letters only
LatinWords(s) ==
    Cardinality({i \in 1..Len(s) :
        /\ s[i] \in WordChars
        /\ i > 1 => s[i - 1] \notin WordChars
        /\ \E j \in i..Len(s) :
               /\ \A k \in i..j : s[k] \in LatinChars
               /\ j < Len(s) => s[j + 1] \notin WordChars})

countWordsCJK(text) ==
    IF text = <<>> THEN 0
    ELSE CountIn(text, CjkChars) + LatinWords(text)
             + CountIn(text, JapaneseChars) + CountIn(text, KoreanChars)

\* detectLanguage: the ratios are compared as counts against the length of
\* the trimmed text
detectLanguage(text) ==
    IF text = <<>> THEN "unknown"
    ELSE LET counts == <<CountIn(text, CjkChars), CountIn(text, JapaneseChars),
                         CountIn(text, KoreanChars), CountIn(text, LatinChars)>>
             names == <<"chinese", "japanese", "korean", "latin">>
             totalChars == Len(Trim(text))
             maxCount == CHOOSE m \in Range(counts) : \A n \in Range(counts) : n <= m
         IN IF totalChars = 0 THEN "unknown"
            ELSE IF 10 * maxCount < totalChars THEN "unknown"
            ELSE IF 2 * maxCount < totalChars THEN "mixed"
            ELSE names[CHOOSE i \in 1..4 :
                           counts[i] = maxCount /\ \A j \in 1..(i - 1) : counts[j] # maxCount]

\* the index of the first character of s that is no white space
AfterSpaces(s) ==
    CHOOSE i \in 1..(Len(s) + 1) :
        /\ \A k \in 1..(i - 1) : IsSpace(s[k])
        /\ i <= Len(s) => ~IsSpace(s[i])

ListOpeners == {"(", "[", "{"}
ListClosers == {")", "]", "}", ".", ":", " ", "-"}
ListBullets == {"-", "*", "U+2022"}

\* /^\s*[\(\[\{]?<chars>+[\)\]\}\.: -]+\s*/.test(s), and with many FALSE the
\* same for a single character of chars
NumberedItem(s, chars, many) ==
    LET i == AfterSpaces(s)
        j == IF i <= Len(s) /\ s[i] \in ListOpeners THEN i + 1 ELSE i
    IN \E k \in j..(Len(s) - 1) :
           /\ many \/ k = j
           /\ \A m \in j..k : s[m] \in chars
           /\ s[k + 1] \in ListClosers

\* /^\s*[-*\u2022]\s+/.test(s)
BulletItem(s) ==
    LET i == AfterSpaces(s)
    IN i < Len(s) /\ s[i] \in ListBullets /\ IsSpace(s[i + 1])

\* some pattern of LIST_PATTERNS matches
IsListItem(s) ==
    \/ NumberedItem(s, DigitChars, TRUE)
    \/ NumberedItem(s, UpperChars, FALSE)
    \/ NumberedItem(s, LowerChars, FALSE)
    \/ NumberedItem(s, {"I", "V", "X", "L", "C", "D", "M"}, TRUE)
    \/ NumberedItem(s, {"i", "v", "x", "l", "c", "d", "m"}, TRUE)
    \/ BulletItem(s)

isBulletedList(lines) ==
    IF Len(lines) < 2 THEN FALSE
    ELSE LET matchingLines ==
                 Cardinality({i \in 1..Len(lines) :
                     Trim(lines[i]) # <<>> /\ IsListItem(Trim(lines[i]))})
         IN 2 * matchingLines >= Len(lines)

\* Array.prototype.join(' ')
RECURSIVE JoinWords(_)
JoinWords(texts) ==
    IF texts = <<>> THEN <<>>
    ELSE IF Len(texts) = 1 THEN texts[1]
    ELSE texts[1] \o <<" ">> \o JoinWords(Tail(texts))

formatAsList(lines) ==
    IF lines = <<>> THEN <<>>
    ELSE IF isBulletedList(lines) THEN JoinLines(lines)
    ELSE JoinWords(SelectSeq([i \in 1..Len(lines) |-> Trim(lines[i])],
                             LAMBDA line : line # <<>>))

extractContentFeatures(text) ==
    IF text = <<>>
    THEN [hashtags |-> <<>>, links |-> <<>>, otherText |-> <<>>,
          formattedText |-> <<>>, language |-> "unknown", wordCount |-> 0]
    ELSE LET hashtags == extractHashtags(text)
             links == extractMarginNoteLinks(text)
             otherText == extractOtherText(text, hashtags, links)
         IN [hashtags |-> hashtags,
             links |-> links,
             otherText |-> otherText,
             formattedText |-> formatAsList(otherText),
             language |-> detectLanguage(text),
             wordCount |-> countWordsCJK(text)]

\* ------------------------------------------------------ ContentExtractor
NoNote == <<"undefined">>    \* a group's masterNote before it is assigned

ContentGroupImpl(masterNoteId, noteIds, noteRefs) ==
    [masterNoteId |-> masterNoteId, noteIds |-> noteIds, notes |-> noteRefs,
     masterNote |-> NoNote, groupType |-> "unknown"]

\* the link loop of groupRelatedContent
RECURSIVE UnionLinks(_, _, _, _)
UnionLinks(uf, notes, noteId, links) ==
    IF links = <<>> THEN uf
    ELSE UnionLinks(IF NotesHas(notes, Head(links)) THEN union(uf, noteId, Head(links)) ELSE uf,
                    notes, noteId, Tail(links))

\* UnionNote without the externalId relation
UnionNoteWithoutExternal(uf, notes, note) ==
    LET u1 == IF note.groupNoteId # <<>> THEN union(uf, note.noteId, note.groupNoteId) ELSE uf
    IN UnionLinks(u1, notes, note.noteId, note.internalLinks)

\* the body of groupRelatedContent's first loop, for one note
UnionNote(uf, notes, note) ==
    LET u1 == IF note.groupNoteId # <<>> THEN union(uf, note.noteId, note.groupNoteId) ELSE uf
        u2 == IF note.evernoteId # <<>> THEN union(u1, note.noteId, note.evernoteId) ELSE u1
    IN UnionLinks(u2, notes, note.noteId, note.internalLinks)

RECURSIVE UnionNotesFrom(_, _, _)
UnionNotesFrom(uf, notes, i) ==
    IF i > Len(notes) THEN uf ELSE UnionNotesFrom(UnionNote(uf, notes, notes[i]), notes, i + 1)

\* the body of groupRelatedContent's second loop: the groups made of one
\* array of getGroups (none or one).  notes of a group are held by id.
GroupOfIds(notes, groupIds) ==
    IF Len(groupIds) = 1
    THEN IF NotesHas(notes, groupIds[1])
         THEN <<[ContentGroupImpl(groupIds[1], groupIds, <<groupIds[1]>>)
                    EXCEPT !.masterNote = groupIds[1]]>>
         ELSE <<>>
    ELSE LET validIds == SelectSeq(groupIds, LAMBDA nid : NotesHas(notes, nid))
         IN IF Len(validIds) > 0
            THEN <<ContentGroupImpl(validIds[1], validIds, validIds)>>
            ELSE <<>>

RECURSIVE GroupsOfArrays(_, _)
GroupsOfArrays(notes, arrays) ==
    IF arrays = <<>> THEN <<>>
    ELSE GroupOfIds(notes, Head(arrays)) \o GroupsOfArrays(notes, Tail(arrays))

\* groupRelatedContent: the union-find it leaves and the groups it returns
groupRelatedContent(uf, notes) ==
    LET g == getGroups(UnionNotesFrom(uf, notes, 1))
    IN [unionFind |-> g.uf, contentGroups |-> GroupsOfArrays(notes, g.members)]

\* selectMasterNote with the Book bucket ahead of the Project bucket
selectMasterNoteBookFirst(tc, groupNotes) ==
    LET TypeOf(n) == IF n.topicId # "" THEN getTopicType(tc, n.topicId) ELSE NoTopicType
        projectNotes == SelectSeq(groupNotes, LAMBDA n : TypeOf(n) = PROJECT)
        bookNotes == SelectSeq(groupNotes, LAMBDA n : TypeOf(n) = BOOK)
        reviewNotes == SelectSeq(groupNotes, LAMBDA n : TypeOf(n) = REVIEW_TOPIC)
        otherNotes == SelectSeq(groupNotes,
                                LAMBDA n : TypeOf(n) \notin {PROJECT, BOOK, REVIEW_TOPIC})
        Pick(noteList) ==
            LET originalNotes == SelectSeq(noteList, LAMBDA n : n.groupNoteId = <<>>)
            IN IF Len(originalNotes) > 0 THEN originalNotes[1] ELSE noteList[1]
    IN IF Len(bookNotes) > 0 THEN Pick(bookNotes)
       ELSE IF Len(projectNotes) > 0 THEN Pick(projectNotes)
       ELSE IF Len(reviewNotes) > 0 THEN Pick(reviewNotes)
       ELSE IF Len(otherNotes) > 0 THEN Pick(otherNotes)
       ELSE groupNotes[1]

\* selectMasterNote without the preference for originals
selectMasterNoteFirstOfBucket(tc, groupNotes) ==
    LET TypeOf(n) == IF n.topicId # "" THEN getTopicType(tc, n.topicId) ELSE NoTopicType
        projectNotes == SelectSeq(groupNotes, LAMBDA n : TypeOf(n) = PROJECT)
        bookNotes == SelectSeq(groupNotes, LAMBDA n : TypeOf(n) = BOOK)
        reviewNotes == SelectSeq(groupNotes, LAMBDA n : TypeOf(n) = REVIEW_TOPIC)
        otherNotes == SelectSeq(groupNotes,
                                LAMBDA n : TypeOf(n) \notin {PROJECT, BOOK, REVIEW_TOPIC})
    IN IF Len(projectNotes) > 0 THEN projectNotes[1]
       ELSE IF Len(bookNotes) > 0 THEN bookNotes[1]
       ELSE IF Len(reviewNotes) > 0 THEN reviewNotes[1]
       ELSE IF Len(otherNotes) > 0 THEN otherNotes[1]
       ELSE groupNotes[1]

\* selectMasterNote over the records of a group
selectMasterNote(tc, groupNotes) ==
    LET TypeOf(n) == IF n.topicId # "" THEN getTopicType(tc, n.topicId) ELSE NoTopicType
        projectNotes == SelectSeq(groupNotes, LAMBDA n : n.topicId # "" /\ TypeOf(n) = PROJECT)
        bookNotes == SelectSeq(groupNotes, LAMBDA n : n.topicId # "" /\ TypeOf(n) = BOOK)
        reviewNotes == SelectSeq(groupNotes, LAMBDA n : n.topicId # "" /\ TypeOf(n) = REVIEW_TOPIC)
        otherNotes == SelectSeq(groupNotes,
                                LAMBDA n : TypeOf(n) \notin {PROJECT, BOOK, REVIEW_TOPIC})
        Pick(noteList) ==
            LET originalNotes == SelectSeq(noteList, LAMBDA n : n.groupNoteId = <<>>)
            IN IF Len(originalNotes) > 0 THEN originalNotes[1] ELSE noteList[1]
    IN IF Len(projectNotes) > 0 THEN Pick(projectNotes)
       ELSE IF Len(bookNotes) > 0 THEN Pick(bookNotes)
       ELSE IF Len(reviewNotes) > 0 THEN Pick(reviewNotes)
       ELSE IF Len(otherNotes) > 0 THEN Pick(otherNotes)
       ELSE groupNotes[1]

\* the records a group refers to
NotesOf(notes, group) == [i \in 1..Len(group.notes) |-> NotesGet(notes, group.notes[i])]

\* the body of identifyMasterNotes' loop
IdentifyMaster(tc, notes, group) ==
    IF Len(group.notes) = 1
    THEN [group EXCEPT !.masterNote = group.notes[1], !.masterNoteId = group.notes[1]]
    ELSE LET masterNote == selectMasterNote(tc, NotesOf(notes, group))
             topicType == IF masterNote.topicId # ""
                          THEN getTopicType(tc, masterNote.topicId) ELSE NoTopicType
         IN [group EXCEPT !.masterNote = masterNote.noteId,
                          !.masterNoteId = masterNote.noteId,
                          !.groupType = IF topicType # NoTopicType THEN topicType ELSE @]

identifyMasterNotes(tc, notes, groups) ==
    [i \in 1..Len(groups) |-> IdentifyMaster(tc, notes, groups[i])]

\* the body of processContentFeatures' loop: the notes after one group
ContentFeaturesOf(notes, group) ==
    IF group.masterNote = NoNote THEN notes
    ELSE LET k == NotesIndex(notes, group.masterNote)
             allText == getAllText(notes[k])
             features == extractContentFeatures(allText)
         IN IF allText # <<>> /\ Len(notes[k].hashtags) = 0
            THEN [notes EXCEPT ![k].hashtags = features.hashtags,
                               ![k].internalLinks = features.links,
                               ![k].formattedText = features.otherText]
            ELSE notes

RECURSIVE processContentFeatures(_, _)
processContentFeatures(notes, groups) ==
    IF groups = <<>> THEN notes
    ELSE processContentFeatures(ContentFeaturesOf(notes, Head(groups)), Tail(groups))

\* --------------------------------------------------- ContentDeduplicator
NewDeduplicationStats ==
    [totalGroupsProcessed |-> 0, mergedContentFound |-> 0, originalContentPreserved |-> 0,
     duplicatesRemoved |-> 0, contentCombined |-> 0]

separateMergedAndOriginal(groupNotes) ==
    [merged |-> SelectSeq(groupNotes, isMergedContent),
     original |-> SelectSeq(groupNotes, LAMBDA n : ~isMergedContent(n) /\ isOriginalContent(n))]

calculateContentScore(note) ==
    (IF note.excerptText # <<>> THEN Len(Trim(note.excerptText)) ELSE 0)
    + (IF note.notesText # <<>> THEN Len(Trim(note.notesText)) * 2 ELSE 0)
    + (IF note.noteTitle # <<>> THEN Len(Trim(note.noteTitle)) * 3 ELSE 0)
    + Len(note.hashtags) * 10
    + Len(note.internalLinks) * 5
    + Len(note.formattedText) * 2
    + Len(note.mediaAttachments) * 15
    + (IF note.excerptPic # NoPic /\ PicHasContent(note.excerptPic) THEN 20 ELSE 0)

\* scoredNotes.sort((a, b) => b.score - a.score): a stable sort, highest first
RECURSIVE InsertScored(_, _)
InsertScored(sorted, x) ==
    IF sorted = <<>> THEN <<x>>
    ELSE IF Head(sorted).score - x.score < 0 THEN <<x>> \o sorted
    ELSE <<Head(sorted)>> \o InsertScored(Tail(sorted), x)

RECURSIVE SortScored(_)
SortScored(scored) ==
    IF scored = <<>> THEN <<>>
    ELSE InsertScored(SortScored(SubSeq(scored, 1, Len(scored) - 1)), scored[Len(scored)])

\* selectBestMergedNote taking the first merged note
selectFirstMergedNote(mergedNotes) ==
    mergedNotes[1]

selectBestMergedNote(mergedNotes) ==
    IF Len(mergedNotes) = 1 THEN mergedNotes[1]
    ELSE LET scoredNotes == [i \in 1..Len(mergedNotes) |->
                                [note |-> mergedNotes[i],
                                 score |-> calculateContentScore(mergedNotes[i])]]
         IN SortScored(scoredNotes)[1].note

\* PushUnique putting the new entries in front (unshift for push)
RECURSIVE PushUniqueInFront(_, _)
PushUniqueInFront(list, items) ==
    IF items = <<>> THEN list
    ELSE PushUniqueInFront(IF Has(list, Head(items)) THEN list ELSE <<Head(items)>> \o list,
                           Tail(items))

\* for (x of items) if (!list.includes(x)) list.push(x)
RECURSIVE PushUnique(_, _)
PushUnique(list, items) ==
    IF items = <<>> THEN list
    ELSE PushUnique(IF Has(list, Head(items)) THEN list ELSE Append(list, Head(items)),
                    Tail(items))

\* the media loop: existingHashes is computed once, before the loop
PushNewMedia(list, items) ==
    LET existingHashes == {list[i].mediaHash : i \in 1..Len(list)}
    IN list \o SelectSeq(items, LAMBDA m : m.mediaHash \notin existingHashes)

\* SupplementWith taking every text field the original has
SupplementWithOverwriting(masterNote, originalNote) ==
    [masterNote EXCEPT
        !.excerptText = IF originalNote.excerptText # <<>> THEN originalNote.excerptText ELSE @,
        !.notesText = IF originalNote.notesText # <<>> THEN originalNote.notesText ELSE @,
        !.noteTitle = IF originalNote.noteTitle # <<>> THEN originalNote.noteTitle ELSE @,
        !.excerptPic = IF @ = NoPic /\ originalNote.excerptPic # NoPic
                       THEN originalNote.excerptPic ELSE @,
        !.hashtags = PushUnique(@, originalNote.hashtags),
        !.internalLinks = PushUnique(@, originalNote.internalLinks),
        !.formattedText = PushUnique(@, originalNote.formattedText),
        !.mediaAttachments = PushNewMedia(@, originalNote.mediaAttachments)]

\* the body of supplementWithOriginalContent's loop
SupplementWith(masterNote, originalNote) ==
    [masterNote EXCEPT
        !.excerptText = IF @ = <<>> /\ originalNote.excerptText # <<>>
                        THEN originalNote.excerptText ELSE @,
        !.notesText = IF @ = <<>> /\ originalNote.notesText # <<>>
                      THEN originalNote.notesText ELSE @,
        !.noteTitle = IF @ = <<>> /\ originalNote.noteTitle # <<>>
                      THEN originalNote.noteTitle ELSE @,
        !.excerptPic = IF @ = NoPic /\ originalNote.excerptPic # NoPic
                       THEN originalNote.excerptPic ELSE @,
        !.hashtags = PushUnique(@, originalNote.hashtags),
        !.internalLinks = PushUnique(@, originalNote.internalLinks),
        !.formattedText = PushUnique(@, originalNote.formattedText),
        !.mediaAttachments = PushNewMedia(@, originalNote.mediaAttachments)]

RECURSIVE supplementWithOriginalContent(_, _)
supplementWithOriginalContent(masterNote, originalNotes) ==
    IF originalNotes = <<>> THEN masterNote
    ELSE supplementWithOriginalContent(SupplementWith(masterNote, Head(originalNotes)),
                                       Tail(originalNotes))

combineOriginalNotes(originalNotes) ==
    IF Len(originalNotes) = 1 THEN originalNotes[1]
    ELSE supplementWithOriginalContent(originalNotes[1], Tail(originalNotes))

\* DeduplicatedGroup keeping the ids of the group it replaces
DeduplicatedGroupKeepingIds(group, masterNote) ==
    [ContentGroupImpl(group.masterNoteId, <<group.masterNoteId>>, <<masterNote.noteId>>)
        EXCEPT !.masterNote = masterNote.noteId, !.groupType = group.groupType]

\* the group the three handlers build around the master
DeduplicatedGroup(group, masterNote) ==
    [ContentGroupImpl(masterNote.noteId, <<masterNote.noteId>>, <<masterNote.noteId>>)
        EXCEPT !.masterNote = masterNote.noteId, !.groupType = group.groupType]

\* handleMixedContent leaving the originals' content out
handleMixedContentAsIs(group, mergedNotes, originalNotes, stats) ==
    LET masterNote == selectBestMergedNote(mergedNotes)
    IN [master |-> masterNote,
        group |-> DeduplicatedGroup(group, masterNote),
        stats |-> [stats EXCEPT !.mergedContentFound = @ + 1, !.contentCombined = @ + 1]]

\* handleMixedContent: the master as it leaves, the group, the statistics
handleMixedContent(group, mergedNotes, originalNotes, stats) ==
    LET masterNote == supplementWithOriginalContent(selectBestMergedNote(mergedNotes),
                                                    originalNotes)
    IN [master |-> masterNote,
        group |-> DeduplicatedGroup(group, masterNote),
        stats |-> [stats EXCEPT !.mergedContentFound = @ + 1, !.contentCombined = @ + 1]]

handleMergedOnlyContent(group, mergedNotes, stats) ==
    LET masterNote == selectBestMergedNote(mergedNotes)
    IN [master |-> masterNote, group |-> DeduplicatedGroup(group, masterNote), stats |-> stats]

handleOriginalOnlyContent(group, originalNotes, stats) ==
    LET masterNote == IF Len(originalNotes) > 1 THEN combineOriginalNotes(originalNotes)
                      ELSE originalNotes[1]
    IN [master |-> masterNote,
        group |-> DeduplicatedGroup(group, masterNote),
        stats |-> [stats EXCEPT !.originalContentPreserved = @ + 1]]

\* deduplicateSingleGroup: acc = [notes, groups, processed, stats]; the master
\* is changed in place, so the store of notes changes with it.
deduplicateSingleGroup(acc, group) ==
    IF Len(group.notes) = 0 THEN acc
    ELSE LET parts == separateMergedAndOriginal(NotesOf(acc.notes, group))
             r == IF Len(parts.merged) > 0 /\ Len(parts.original) > 0
                  THEN handleMixedContent(group, parts.merged, parts.original, acc.stats)
                  ELSE IF Len(parts.merged) > 0
                  THEN handleMergedOnlyContent(group, parts.merged, acc.stats)
                  ELSE handleOriginalOnlyContent(group, parts.original, acc.stats)
         IN [acc EXCEPT !.notes = NotesSet(@, r.master),
                        !.groups = Append(@, r.group),
                        !.processed = @ \cup {r.group.masterNoteId},
                        !.stats = r.stats]

RECURSIVE DeduplicateFrom(_, _, _)
DeduplicateFrom(acc, groups, i) ==
    IF i > Len(groups) THEN acc
    ELSE IF groups[i].masterNoteId \in acc.processed
         THEN DeduplicateFrom(acc, groups, i + 1)
         ELSE LET a == deduplicateSingleGroup(acc, groups[i])
              IN DeduplicateFrom([a EXCEPT !.stats.totalGroupsProcessed = @ + 1],
                                 groups, i + 1)

deduplicateContentGroups(notes, contentGroups) ==
    DeduplicateFrom([notes |-> notes, groups |-> <<>>, processed |-> {},
                     stats |-> NewDeduplicationStats],
                    contentGroups, 1)

\* FirstTrimmedOccurrences comparing the fragments as they are
RECURSIVE FirstUntrimmedOccurrences(_)
FirstUntrimmedOccurrences(texts) ==
    IF texts = <<>> THEN <<>>
    ELSE LET init == FirstUntrimmedOccurrences(SubSeq(texts, 1, Len(texts) - 1))
             text == texts[Len(texts)]
         IN IF Trim(text) = <<>> \/ Has(init, text) THEN init ELSE Append(init, text)

\* note.formattedText.filter: trimmed, non-empty, first occurrence
RECURSIVE FirstTrimmedOccurrences(_)
FirstTrimmedOccurrences(texts) ==
    IF texts = <<>> THEN <<>>
    ELSE LET init == FirstTrimmedOccurrences(SubSeq(texts, 1, Len(texts) - 1))
             text == texts[Len(texts)]
             cleanText == Trim(text)
             seenText == {Trim(init[i]) : i \in 1..Len(init)}
         IN IF cleanText = <<>> \/ cleanText \in seenText THEN init ELSE Append(init, text)

\* note.mediaAttachments.filter: first occurrence of every hash
RECURSIVE FirstMediaOccurrences(_)
FirstMediaOccurrences(media) ==
    IF media = <<>> THEN <<>>
    ELSE LET init == FirstMediaOccurrences(SubSeq(media, 1, Len(media) - 1))
             seenMedia == {init[i].mediaHash : i \in 1..Len(init)}
         IN IF media[Len(media)].mediaHash \in seenMedia THEN init
            ELSE Append(init, media[Len(media)])

removeNoteDuplicates(note) ==
    [note EXCEPT !.hashtags = FirstOccurrences(@),
                 !.internalLinks = FirstOccurrences(@),
                 !.formattedText = FirstTrimmedOccurrences(@),
                 !.mediaAttachments = FirstMediaOccurrences(@)]

RECURSIVE removeDuplicateFeatures(_, _)
removeDuplicateFeatures(notes, groups) ==
    IF groups = <<>> THEN notes
    ELSE LET g == Head(groups)
             cleaned == IF g.masterNote = NoNote THEN notes
                        ELSE NotesSet(notes, removeNoteDuplicates(NotesGet(notes, g.masterNote)))
         IN removeDuplicateFeatures(cleaned, Tail(groups))

\* deduplicateContent: deduplicateContentGroups, then removeDuplicateFeatures
deduplicateContent(notes, contentGroups) ==
    LET d == deduplicateContentGroups(notes, contentGroups)
    IN [notes |-> removeDuplicateFeatures(d.notes, d.groups),
        groups |-> d.groups,
        stats |-> d.stats]

\* ---------------------------------------------------------------- numbers
\* A JavaScript number is named by the string that String(value) gives: the
\* digits of an integer, "1.5", "1e+21", "5e-324", "Infinity", "NaN".  The two
\* zeros share the name "0".
Digits == <<"0", "1", "2", "3", "4", "5", "6", "7", "8", "9">>

Zeros(n) == [i \in 1..n |-> 0]

\* the value of a run of decimal digits
RECURSIVE ParseDigits(_, _)
ParseDigits(value, text) ==
    IF text # <<>> /\ Has(Digits, Head(text))
    THEN ParseDigits(10 * value + IndexOf(Digits, Head(text)) - 1, Tail(text))
    ELSE value

\* the index of the last digit of the run of digits of s that starts at i,
\* i - 1 when s has no digit there
DigitRunEnd(s, i) ==
    CHOOSE j \in (i - 1)..Len(s) :
        /\ \A k \in i..j : Has(Digits, s[k])
        /\ j < Len(s) => ~Has(Digits, s[j + 1])

\* the character c is at index i of text
CharAt(text, i, c) == i <= Len(text) /\ text[i] = c

\* A natural number beyond the integers of the model is the sequence of its
\* decimal digits, the most significant first and not 0; 0 is <<>>.
DigitValues(text) == [i \in 1..Len(text) |-> IndexOf(Digits, text[i]) - 1]

DigitText(d) == [i \in 1..Len(d) |-> Digits[d[i] + 1]]

\* digits without the zeros that lead them
StripZeros(d) ==
    IF \A i \in 1..Len(d) : d[i] = 0 THEN <<>>
    ELSE SubSeq(d, CHOOSE i \in 1..Len(d) : d[i] # 0 /\ \A j \in 1..(i - 1) : d[j] = 0, Len(d))

\* digits without the zeros that end them
StripTrailingZeros(d) ==
    IF \A i \in 1..Len(d) : d[i] = 0 THEN <<>>
    ELSE SubSeq(d, 1, CHOOSE i \in 1..Len(d) : d[i] # 0 /\ \A j \in (i + 1)..Len(d) : d[j] = 0)

\* a < b
Less(a, b) ==
    \/ Len(a) < Len(b)
    \/ /\ Len(a) = Len(b)
       /\ \E i \in 1..Len(a) : a[i] < b[i] /\ \A j \in 1..(i - 1) : a[j] = b[j]

\* d + 1
Succ(d) ==
    IF \A i \in 1..Len(d) : d[i] = 9 THEN <<1>> \o Zeros(Len(d))
    ELSE [i \in 1..Len(d) |->
             IF \E j \in (i + 1)..Len(d) : d[j] # 9 THEN d[i]
             ELSE IF d[i] = 9 THEN 0 ELSE d[i] + 1]

\* d - 1, for d above 0
Pred(d) ==
    StripZeros([i \in 1..Len(d) |->
                   IF \E j \in (i + 1)..Len(d) : d[j] # 0 THEN d[i]
                   ELSE IF d[i] = 0 THEN 9 ELSE d[i] - 1])

IsOdd(d) == d # <<>> /\ d[Len(d)] % 2 = 1

\* the digits of a natural number of the model
NaturalDigits(n) ==
    StripZeros([i \in 1..10 |-> (n \div (10 ^ (10 - i))) % 10])

\* String(n) for an integer of 32 bits
IntegerText(n) ==
    IF n = 0 THEN <<"0">>
    ELSE IF n > 0 THEN DigitText(NaturalDigits(n))
    ELSE <<"-">> \o DigitText(Succ(NaturalDigits(-(n + 1))))

\* The products are taken on limbs of five digits, the least significant
\* first.
LimbBase == 10 ^ 5

DigitOr0(d, k) == IF k >= 1 THEN d[k] ELSE 0

Limb(d, last) ==
    DigitOr0(d, last) + 10 * DigitOr0(d, last - 1) + 100 * DigitOr0(d, last - 2)
        + 1000 * DigitOr0(d, last - 3) + 10000 * DigitOr0(d, last - 4)

Limbs(d) == [i \in 1..((Len(d) + 4) \div 5) |-> Limb(d, Len(d) - 5 * (i - 1))] \o <<>>

LimbDigits(a) ==
    StripZeros([k \in 1..(5 * Len(a)) |->
                   (a[Len(a) - (k - 1) \div 5] \div (10 ^ (4 - ((k - 1) % 5)))) % 10])

\* a without a most significant limb of 0
DropTop(a) == IF a # <<>> /\ a[Len(a)] = 0 THEN SubSeq(a, 1, Len(a) - 1) ELSE a

\* a * m for m that divides LimbBase: the carry out of a limb is that of
\* the limb alone
Times(a, m) ==
    DropTop([i \in 1..(Len(a) + 1) |->
                ((IF i <= Len(a) THEN a[i] * m ELSE 0)
                    + (IF i > 1 THEN (a[i - 1] * m) \div LimbBase ELSE 0)) % LimbBase])

\* a * p ^ n for p 2 or 5, five factors at a time
RECURSIVE TimesPower(_, _, _)
TimesPower(a, p, n) ==
    IF n <= 5 THEN Times(a, p ^ n)
    ELSE LET half == TimesPower(a, p, n \div 2)
         IN IF half = <<>> THEN half ELSE TimesPower(half, p, n - n \div 2)

\* d * p ^ n
Scaled(d, p, n) == LimbDigits(TimesPower(Limbs(d), p, n))

PowerOfTwo(n) == Scaled(<<1>>, 2, n)

\* how 0.d compares with one half
Fraction(d) ==
    IF \A i \in 1..Len(d) : d[i] = 0 THEN "zero"
    ELSE IF d[1] < 5 THEN "below"
    ELSE IF d[1] > 5 \/ \E i \in 2..Len(d) : d[i] # 0 THEN "above"
    ELSE "half"

\* x / 10 ^ r for x above 0: the whole part and how the rest compares with
\* one half
DropDigits(x, r) ==
    IF r = 0 THEN [whole |-> x, rest |-> "zero"]
    ELSE IF r > Len(x) THEN [whole |-> <<>>, rest |-> "below"]
    ELSE [whole |-> SubSeq(x, 1, Len(x) - r),
          rest |-> Fraction(SubSeq(x, Len(x) - r + 1, Len(x)))]

\* x * 10 ^ s
ShiftDigits(x, s) ==
    IF s >= 0 THEN [whole |-> x \o Zeros(s), rest |-> "zero"] ELSE DropDigits(x, -s)

\* d * 10 ^ e / 2 ^ e2, for d above 0
Ratio(d, e, e2) ==
    IF e2 <= 0 THEN ShiftDigits(Scaled(d, 2, -e2), e) ELSE ShiftDigits(Scaled(d, 5, e2), e - e2)

\* to the nearest integer, to the even one of two
RoundHalfEven(r) ==
    IF r.rest = "above" \/ (r.rest = "half" /\ IsOdd(r.whole)) THEN Succ(r.whole) ELSE r.whole

\* ---- IEEE 754 double precision
MinExponent == 1 - 1023 - 52
MaxExponent == 1023 - 52

\* the double significand * 2 ^ exponent, the significand below 2 ^ 53, and
\* at least 2 ^ 52 unless the exponent is MinExponent
RECURSIVE Double(_, _)
Double(significand, exponent) ==
    IF significand = <<>> THEN [class |-> "zero", significand |-> <<>>, exponent |-> 0]
    ELSE IF significand = PowerOfTwo(53) THEN Double(PowerOfTwo(52), exponent + 1)
    ELSE IF exponent > MaxExponent
    THEN [class |-> "infinite", significand |-> <<>>, exponent |-> 0]
    ELSE [class |-> "finite", significand |-> significand, exponent |-> exponent]

\* a bound from below on the binary logarithm of a number of p digits
Log2Below(p) ==
    IF p >= 1 THEN ((p - 1) * 3321928) \div 1000000
    ELSE -(((1 - p) * 3321929) \div 1000000) - 1

\* the exponent of the double nearest to d * 10 ^ e, given a first exponent
\* that is at most five below it
ExponentFrom(d, e, first) ==
    first + Cardinality({j \in 53..58 : ~Less(Ratio(d, e, first).whole, PowerOfTwo(j))})

NearestAt(d, e, e2) == Double(RoundHalfEven(Ratio(d, e, e2)), e2)

\* the double nearest to d * 10 ^ e, d without zeros at its ends: a number
\* of 310 digits and more is infinite, one below 10 ^ -324 is 0
Nearest(d, e) ==
    IF d = <<>> \/ Len(d) + e <= -324 THEN Double(<<>>, 0)
    ELSE IF Len(d) + e >= 310 THEN Double(<<1>>, MaxExponent + 1)
    ELSE NearestAt(d, e, ExponentFrom(d, e, IF Log2Below(Len(d) + e) - 52 < MinExponent
                                              THEN MinExponent
                                              ELSE Log2Below(Len(d) + e) - 52))

\* ---- Number::toString
\* The numbers that round to the double of significand q lie between the
\* midpoints to its neighbours: in halves of its unit these are 2q - 1 and
\* 2q + 1, and in quarters 4q - 1 and 4q + 2 when q is 2 ^ 52, below which
\* the doubles are twice as dense.
Narrow(double) == double.significand = PowerOfTwo(52) /\ double.exponent > MinExponent

Middle(double) ==
    IF Narrow(double) THEN PowerOfTwo(54) ELSE Scaled(double.significand, 2, 1)

UnitExponent(double) == double.exponent - (IF Narrow(double) THEN 2 ELSE 1)

\* x * 2 ^ u as digits * 10 ^ min(u, 0)
Expansion(x, u) == IF u >= 0 THEN Scaled(x, 2, u) ELSE Scaled(x, 5, -u)

\* c rounds to the double of which low and high bound the numbers that
\* round to it: the bounds do when the significand is even
RoundsTo(c, low, high, even) ==
    IF even THEN ~Less(c, low) /\ ~Less(high, c) ELSE Less(low, c) /\ Less(c, high)

\* mid cut to n digits, and the next number of n digits
CutDown(mid, n) == IF n >= Len(mid) THEN mid ELSE SubSeq(mid, 1, n) \o Zeros(Len(mid) - n)

CutUp(mid, n) ==
    IF n >= Len(mid) THEN mid ELSE Succ(SubSeq(mid, 1, n)) \o Zeros(Len(mid) - n)

\* of the two, the one that rounds to the double, the nearer to mid when
\* both do, and the even one when they are as near
Nearer(mid, n, downFits, upFits) ==
    IF ~upFits THEN CutDown(mid, n)
    ELSE IF ~downFits THEN CutUp(mid, n)
    ELSE IF n >= Len(mid) THEN mid
    ELSE IF Fraction(SubSeq(mid, n + 1, Len(mid))) = "above" THEN CutUp(mid, n)
    ELSE IF Fraction(SubSeq(mid, n + 1, Len(mid))) = "half" /\ mid[n] % 2 = 1
    THEN CutUp(mid, n)
    ELSE CutDown(mid, n)

ShortestOf(mid, low, high, even, n) ==
    Nearer(mid, n, RoundsTo(CutDown(mid, n), low, high, even),
           RoundsTo(CutUp(mid, n), low, high, even))

\* the fewest digits that denote a number that rounds to the double
ShortestAmong(mid, low, high, even) ==
    ShortestOf(mid, low, high, even,
               CHOOSE n \in 1..17 :
                   /\ RoundsTo(CutDown(mid, n), low, high, even)
                          \/ RoundsTo(CutUp(mid, n), low, high, even)
                   /\ \A m \in 1..(n - 1) :
                          ~RoundsTo(CutDown(mid, m), low, high, even)
                              /\ ~RoundsTo(CutUp(mid, m), low, high, even))

ShortestFrom(middle, u, narrow, even) ==
    ShortestAmong(Expansion(middle, u), Expansion(Pred(middle), u),
                  Expansion(IF narrow THEN Succ(Succ(middle)) ELSE Succ(middle), u), even)

\* the digits s and the place n of the point, 0.s * 10 ^ n being the
\* shortest decimal that rounds to the double
Pointed(digits, u) ==
    [digits |-> StripTrailingZeros(digits), point |-> Len(digits) + (IF u < 0 THEN u ELSE 0)]

Shortest(double) ==
    Pointed(ShortestFrom(Middle(double), UnitExponent(double), Narrow(double),
                         ~IsOdd(double.significand)),
            UnitExponent(double))

\* Number::toString of 0.digits * 10 ^ n
PointedText(digits, n) ==
    IF Len(digits) <= n /\ n <= 21 THEN DigitText(digits \o Zeros(n - Len(digits)))
    ELSE IF 0 < n /\ n <= 21
    THEN DigitText(SubSeq(digits, 1, n)) \o <<".">> \o DigitText(SubSeq(digits, n + 1, Len(digits)))
    ELSE IF -6 < n /\ n <= 0 THEN <<"0", ".">> \o DigitText(Zeros(-n) \o digits)
    ELSE DigitText(<<digits[1]>>)
             \o (IF Len(digits) = 1 THEN <<>>
                 ELSE <<".">> \o DigitText(SubSeq(digits, 2, Len(digits))))
             \o (IF n - 1 < 0 THEN <<"e", "-">> \o IntegerText(1 - n)
                 ELSE <<"e", "+">> \o IntegerText(n - 1))

ShortestText(shortest) == PointedText(shortest.digits, shortest.point)

InfinityText == <<"I", "n", "f", "i", "n", "i", "t", "y">>
NaNText == <<"N", "a", "N">>

\* String(value) of the double, negative or not
DoubleText(negative, double) ==
    IF double.class = "zero" THEN <<"0">>
    ELSE (IF negative THEN <<"-">> ELSE <<>>)
             \o (IF double.class = "infinite" THEN InfinityText
                 ELSE ShortestText(Shortest(double)))

\* the double nearest to digits * 10 ^ e, whatever zeros the digits have
NearestTrimmed(d, e) ==
    Nearest(StripTrailingZeros(d), e + Len(d) - Len(StripTrailingZeros(d)))

NumberText(negative, digits, e) == DoubleText(negative, NearestTrimmed(StripZeros(digits), e))

\* ---- numeric literals
\* A decimal literal of text from index s on: a sign or none, then Infinity,
\* or digits, a fraction and an exponent, of which the digits or the
\* fraction may be missing.  last is the index of its last character, s - 1
\* when there is no literal.

\* the exponent part after index mantEnd: e or E, a sign or none, and
\* digits; an exponent of more than six digits counts as 10 ^ 6, with
\* which a literal of fewer than 10 ^ 5 digits is as infinite or as near
\* to 0
ExponentPart(text, mantEnd, d, expEnd) ==
    IF (CharAt(text, mantEnd + 1, "e") \/ CharAt(text, mantEnd + 1, "E")) /\ expEnd >= d
    THEN [last |-> expEnd,
          exponent |-> (IF CharAt(text, mantEnd + 2, "-") THEN -1 ELSE 1)
                           * (IF Len(StripZeros(DigitValues(SubSeq(text, d, expEnd))))
                                     > 6
                              THEN 10 ^ 6
                              ELSE ParseDigits(0, SubSeq(text, d, expEnd)))]
    ELSE [last |-> mantEnd, exponent |-> 0]

ExponentAt(text, mantEnd, d) == ExponentPart(text, mantEnd, d, DigitRunEnd(text, d))

ExponentAfter(text, mantEnd) ==
    ExponentAt(text, mantEnd,
               IF CharAt(text, mantEnd + 2, "-") \/ CharAt(text, mantEnd + 2, "+")
               THEN mantEnd + 3 ELSE mantEnd + 2)

NoLiteral(s) ==
    [last |-> s - 1, class |-> "NaN", negative |-> FALSE, digits |-> <<>>, exponent |-> 0]

LiteralWith(negative, digits, fraction, part) ==
    [last |-> part.last, class |-> "finite", negative |-> negative,
     digits |-> DigitValues(digits \o fraction), exponent |-> part.exponent - Len(fraction)]

\* the literal whose digits start at i1, with the integer digits up to
\* intEnd and the fraction digits up to fracEnd
DecimalLiteral(text, s, negative, i1, intEnd, fracEnd) ==
    IF intEnd >= i1 \/ fracEnd >= intEnd + 2
    THEN LiteralWith(negative, SubSeq(text, i1, intEnd), SubSeq(text, intEnd + 2, fracEnd),
                     ExponentAfter(text, fracEnd))
    ELSE IF StartsWith(SubSeq(text, i1, Len(text)), InfinityText)
    THEN [last |-> i1 + 7, class |-> "infinite", negative |-> negative, digits |-> <<>>,
          exponent |-> 0]
    ELSE NoLiteral(s)

\* the literal whose integer digits run from i1 to intEnd: a dot after them
\* starts the fraction
FractionFrom(text, s, negative, i1, intEnd) ==
    DecimalLiteral(text, s, negative, i1, intEnd,
                   IF CharAt(text, intEnd + 1, ".") THEN DigitRunEnd(text, intEnd + 2)
                   ELSE intEnd)

\* the literal after the sign, whose digits start at i1
UnsignedFrom(text, s, negative, i1) ==
    FractionFrom(text, s, negative, i1, DigitRunEnd(text, i1))

\* the literal that starts at index s of text with a sign or none
SignedFrom(text, s) ==
    UnsignedFrom(text, s, CharAt(text, s, "-"),
                 IF CharAt(text, s, "-") \/ CharAt(text, s, "+") THEN s + 1 ELSE s)

\* String(value) of the double nearest to the literal
LiteralText(literal) ==
    IF literal.class = "NaN" THEN NaNText
    ELSE IF literal.class = "infinite"
    THEN (IF literal.negative THEN <<"-">> ELSE <<>>) \o InfinityText
    ELSE NumberText(literal.negative, literal.digits, literal.exponent)

\* parseFloat: white space is skipped, then the longest prefix that is a
\* decimal literal counts; NaN when there is none.  The result is the
\* double nearest to the literal.
parseFloat(text) ==
    [kind |-> "number", text |-> LiteralText(SignedFrom(text, AfterSpaces(text)))]

\* ------------------------------------------------------ JavaScript values
\* A value as the converter sees it: undefined, null, a boolean, a number,
\* a string, an array or an object.  text names a boolean, a number or a
\* string; an array has its elements in items; an object has the names of
\* its own properties in keys and their values in items.  proto is <<>> for
\* the prototype the value is born with, <<Null>> for none, and <<p>> for
\* the object or array p.
Value(kind, text, keys, items, proto) ==
    [kind |-> kind, text |-> text, keys |-> keys, items |-> items, proto |-> proto]

Undefined == Value("undefined", <<>>, <<>>, <<>>, <<>>)

Null == Value("null", <<>>, <<>>, <<>>, <<>>)

Bool(b) == Value("boolean", IF b THEN <<"t", "r", "u", "e">> ELSE <<"f", "a", "l", "s", "e">>, <<>>, <<>>, <<>>)

Num(text) == Value("number", text, <<>>, <<>>, <<>>)

Integer(n) == Num(IntegerText(n))

Str(text) == Value("string", text, <<>>, <<>>, <<>>)

Arr(items) == Value("array", <<>>, <<>>, items, <<>>)

Fields(keys, items) == Value("object", <<>>, keys, items, <<>>)

\* a call that returns no value: it throws, or it never ends
TypeError == Value("TypeError", <<>>, <<>>, <<>>, <<>>)

RangeError == Value("RangeError", <<>>, <<>>, <<>>, <<>>)

Never == Value("never", <<>>, <<>>, <<>>, <<>>)

Thrown(v) == v.kind \in {"TypeError", "RangeError", "never"}

UidName == <<"U", "I", "D">>
LengthName == <<"l", "e", "n", "g", "t", "h">>
ProtoName == <<"_", "_", "p", "r", "o", "t", "o", "_", "_">>

\* {UID: n}
UidRef(n) == Fields(<<UidName>>, <<Integer(n)>>)

\* Boolean(v)
ToBoolean(v) ==
    IF v.kind \in {"undefined", "null"} THEN FALSE
    ELSE IF v.kind = "boolean" THEN v.text = <<"t", "r", "u", "e">>
    ELSE IF v.kind = "number" THEN v.text # <<"0">> /\ v.text # NaNText
    ELSE IF v.kind = "string" THEN v.text # <<>>
    ELSE TRUE

\* v || []
OrEmptyArray(v) == IF ToBoolean(v) THEN v ELSE Arr(<<>>)

\* v || ''
OrEmptyString(v) == IF ToBoolean(v) THEN v ELSE Str(<<>>)

\* v === null || v === undefined
Nullish(v) == v.kind \in {"undefined", "null"}

\* the name is that of a natural number: digits, the first not 0 unless it
\* is the only one
IsCanonical(name) ==
    /\ name # <<>>
    /\ \A i \in 1..Len(name) : Has(Digits, name[i])
    /\ name[1] # "0" \/ Len(name) = 1

\* the number the name denotes
NameNumber(name) == StripZeros(DigitValues(name))

\* 2 ^ 32 - 1, one more than the greatest array index
ArrayLengthLimit == <<4, 2, 9, 4, 9, 6, 7, 2, 9, 5>>

\* the name is an array index
IsArrayIndex(name) == IsCanonical(name) /\ Less(NameNumber(name), ArrayLengthLimit)

\* the name is that of a natural number below n
IsBelow(name, n) == IsCanonical(name) /\ Len(name) <= 9 /\ ParseDigits(0, name) < n

\* the names in ascending order of the numbers they denote
RECURSIVE Ascending(_)
Ascending(names) ==
    IF names = {} THEN <<>>
    ELSE LET least == CHOOSE x \in names :
                          \A y \in names : ~Less(NameNumber(y), NameNumber(x))
         IN <<least>> \o Ascending(names \ {least})

\* Object.keys: the array indices in ascending order, then the other names
\* in the order the properties were created
OwnKeys(obj) ==
    IF obj.kind = "array" THEN [i \in 1..Len(obj.items) |-> IntegerText(i - 1)]
    ELSE IF obj.kind = "object"
    THEN Ascending({obj.keys[i] : i \in {j \in 1..Len(obj.keys) : IsArrayIndex(obj.keys[j])}})
             \o SelectSeq(obj.keys, LAMBDA k : ~IsArrayIndex(k))
    ELSE <<>>

\* the value has an own property of that name
HasOwn(v, name) ==
    IF v.kind = "object" THEN Has(v.keys, name)
    ELSE IF v.kind = "array" THEN name = LengthName \/ IsBelow(name, Len(v.items))
    ELSE IF v.kind = "string" THEN name = LengthName \/ IsBelow(name, Len(v.text))
    ELSE FALSE

\* the own property of that name
GetOwn(v, name) ==
    IF v.kind = "object" THEN v.items[IndexOf(v.keys, name)]
    ELSE IF v.kind = "array"
    THEN IF name = LengthName THEN Integer(Len(v.items)) ELSE v.items[ParseDigits(0, name) + 1]
    ELSE IF name = LengthName THEN Integer(Len(v.text))
    ELSE Str(<<v.text[ParseDigits(0, name) + 1]>>)

\* the value has a prototype that the model holds
HasPrototype(v) == v.proto # <<>> /\ v.proto[1].kind # "null"

\* v[name], for the names of data: the own property, or that of the
\* nearest prototype that has one
RECURSIVE Lookup(_, _)
Lookup(v, name) ==
    IF HasOwn(v, name) THEN GetOwn(v, name)
    ELSE IF HasPrototype(v) THEN Lookup(v.proto[1], name)
    ELSE Undefined

\* where the prototype chain of obj has __proto__: in an own property of an
\* object of the chain, in the accessor of Object.prototype, or nowhere
RECURSIVE ProtoProperty(_)
ProtoProperty(obj) ==
    IF HasOwn(obj, ProtoName) THEN "data"
    ELSE IF obj.proto = <<>> THEN "accessor"
    ELSE IF obj.proto[1].kind = "null" THEN "none"
    ELSE ProtoProperty(obj.proto[1])

\* the own property is created, after the array indices below it when its
\* name is one, or it gets the value
Define(obj, name, value) ==
    IF Has(obj.keys, name) THEN [obj EXCEPT !.items[IndexOf(obj.keys, name)] = value]
    ELSE LET before == IF IsArrayIndex(name)
                       THEN Cardinality({i \in 1..Len(obj.keys) :
                                            /\ IsArrayIndex(obj.keys[i])
                                            /\ Less(NameNumber(obj.keys[i]), NameNumber(name))})
                       ELSE Len(obj.keys)
         IN [obj EXCEPT !.keys = SubSeq(@, 1, before) \o <<name>> \o SubSeq(@, before + 1, Len(@)),
                        !.items = SubSeq(@, 1, before) \o <<value>>
                                      \o SubSeq(@, before + 1, Len(@))]

\* obj[name] = value on an object made by {}: __proto__ is the accessor of
\* Object.prototype, which gives obj the prototype when the value is an
\* object or null and does nothing when it is not
Put(obj, name, value) ==
    IF name = ProtoName /\ ProtoProperty(obj) = "accessor"
    THEN IF value.kind \in {"object", "array", "null"} THEN [obj EXCEPT !.proto = <<value>>]
         ELSE obj
    ELSE Define(obj, name, value)

\* the names of the properties of v and of its prototypes that are names
\* of natural numbers
RECURSIVE IntegerNames(_)
IntegerNames(v) ==
    (IF v.kind = "object" THEN {v.keys[i] : i \in {j \in 1..Len(v.keys) : IsCanonical(v.keys[j])}}
     ELSE IF v.kind = "array" THEN {IntegerText(i - 1) : i \in 1..Len(v.items)}
     ELSE IF v.kind = "string" THEN {IntegerText(i - 1) : i \in 1..Len(v.text)}
     ELSE {})
        \cup (IF HasPrototype(v) THEN IntegerNames(v.proto[1]) ELSE {})

\* ---- conversions
\* the parts of a numeric literal that is all of text
WholeLiteral(text, literal) == IF literal.last = Len(text) THEN literal ELSE NoLiteral(1)

HexDigits ==
    <<"0", "1", "2", "3", "4", "5", "6", "7", "8", "9", "a", "b", "c", "d", "e", "f">>

Lower(c) ==
    IF Has(<<"A", "B", "C", "D", "E", "F">>, c)
    THEN <<"a", "b", "c", "d", "e", "f">>[IndexOf(<<"A", "B", "C", "D", "E", "F">>, c)]
    ELSE c

\* d + k, for small k
RECURSIVE AddSmall(_, _)
AddSmall(d, k) == IF k = 0 THEN d ELSE AddSmall(Succ(d), k - 1)

\* the number that the digits denote to the base 2 ^ bits, after value
RECURSIVE RadixValue(_, _, _)
RadixValue(value, bits, text) ==
    IF text = <<>> THEN value
    ELSE LET next == AddSmall(Scaled(value, 2, bits), IndexOf(HexDigits, Lower(Head(text))) - 1)
         IN IF next = <<>> THEN RadixValue(<<>>, bits, Tail(text))
            ELSE RadixValue(next, bits, Tail(text))

\* a literal 0x, 0o or 0b with its digits, NaN when a character is none
RadixLiteral(bits, text) ==
    IF text # <<>> /\ \A i \in 1..Len(text) :
                          /\ Has(HexDigits, Lower(text[i]))
                          /\ IndexOf(HexDigits, Lower(text[i])) <= 2 ^ bits
    THEN [last |-> 0, class |-> "finite", negative |-> FALSE,
          digits |-> RadixValue(<<>>, bits, text), exponent |-> 0]
    ELSE NoLiteral(1)

\* the bits of a digit of the literal, 0 when text has no prefix 0x, 0o, 0b
RadixBits(text) ==
    IF Len(text) < 2 \/ text[1] # "0" THEN 0
    ELSE IF text[2] \in {"x", "X"} THEN 4
    ELSE IF text[2] \in {"o", "O"} THEN 3
    ELSE IF text[2] \in {"b", "B"} THEN 1
    ELSE 0

\* StringToNumber on a string without white space at its ends
TrimmedToNumber(text) ==
    IF text = <<>> THEN <<"0">>
    ELSE IF RadixBits(text) > 0
    THEN LiteralText(RadixLiteral(RadixBits(text), SubSeq(text, 3, Len(text))))
    ELSE LiteralText(WholeLiteral(text, SignedFrom(text, 1)))

\* Number(string)
StringToNumber(text) == Num(TrimmedToNumber(Trim(text)))

\* the property of that name is found on the way from v to the built-in
\* method of arrays: no object on the way has an own property of the name,
\* and an array is on the way
RECURSIVE ArrayMethod(_, _)
ArrayMethod(v, name) ==
    IF v.kind = "array" THEN TRUE
    ELSE IF v.kind # "object" \/ Has(v.keys, name) THEN FALSE
    ELSE IF HasPrototype(v) THEN ArrayMethod(v.proto[1], name)
    ELSE FALSE

\* what v.toString is: the method of arrays, that of Object.prototype, or
\* nothing that can be called
RECURSIVE ToStringMethod(_)
ToStringMethod(v) ==
    IF v.kind = "array" THEN "Array"
    ELSE IF Has(v.keys, <<"t", "o", "S", "t", "r", "i", "n", "g">>) THEN "none"
    ELSE IF v.proto = <<>> THEN "Object"
    ELSE IF v.proto[1].kind = "null" THEN "none"
    ELSE ToStringMethod(v.proto[1])

ObjectText == Str(<<"[", "o", "b", "j", "e", "c", "t", " ", "O", "b", "j", "e", "c", "t", "]">>)

\* the number of elements that a number is as a length, as digits:
\* ToLength
LengthOf(literal) ==
    IF literal.class = "NaN" \/ literal.negative THEN <<>>
    ELSE IF literal.class = "finite" /\ StripZeros(literal.digits) = <<>> THEN <<>>
    ELSE IF literal.class = "infinite" THEN Pred(PowerOfTwo(53))
    ELSE LET whole == StripZeros(ShiftDigits(StripZeros(literal.digits), literal.exponent).whole)
         IN IF Less(whole, PowerOfTwo(53)) THEN whole ELSE Pred(PowerOfTwo(53))

\* the greatest number of characters of a string
MaxStringLength == 2 ^ 29 - 24

RECURSIVE ToStringOf(_)
RECURSIVE ToNumber(_)
RECURSIVE JoinFrom(_, _, _, _, _)

\* the names of the array indices that v or a prototype of v holds
RECURSIVE IndexNames(_)
IndexNames(v) ==
    (IF v.kind = "array" THEN {IntegerText(i - 1) : i \in 1..Len(v.items)}
     ELSE IF v.kind = "object" THEN {v.keys[i] : i \in {j \in 1..Len(v.keys) : IsArrayIndex(v.keys[j])}}
     ELSE {})
        \cup (IF HasPrototype(v) THEN IndexNames(v.proto[1]) ELSE {})

\* so many separators
Commas(count) == [i \in 1..count |-> ","]

\* the separators in the text of the elements before index covered
Written(covered) == IF covered > 0 THEN covered - 1 ELSE 0

\* the end of join: the separators up to the last element are added, unless
\* the text gets longer than a string can be
JoinEnd(length, covered, text) ==
    IF length = <<>> THEN Str(<<>>)
    ELSE IF Len(length) > 9
            \/ ParseDigits(0, DigitText(length)) - 1 + Len(text) - Written(covered)
                   > MaxStringLength
    THEN RangeError
    ELSE Str(text \o Commas(ParseDigits(0, DigitText(length)) - 1 - Written(covered)))

\* the text of the element of that name is added after the separators
\* that stand before it, unless it is empty or the text gets longer than a
\* string can be
Joined(v, names, length, covered, text, element) ==
    IF Thrown(element) THEN element
    ELSE IF element.text = <<>> THEN JoinFrom(v, Tail(names), length, covered, text)
    ELSE IF Len(Head(names)) > 9
            \/ ParseDigits(0, Head(names)) + Len(text) - Written(covered) + Len(element.text)
                   > MaxStringLength
    THEN RangeError
    ELSE JoinFrom(v, Tail(names), length, ParseDigits(0, Head(names)) + 1,
                  text \o Commas(ParseDigits(0, Head(names)) - Written(covered))
                       \o element.text)

\* the loop of join over the indices below the length, of which only
\* those that v or a prototype holds have an element; text is that of the
\* elements before index covered
JoinFrom(v, names, length, covered, text) ==
    IF names = <<>> THEN JoinEnd(length, covered, text)
    ELSE Joined(v, names, length, covered, text,
                IF Nullish(Lookup(v, Head(names))) THEN Str(<<>>)
                ELSE ToStringOf(Lookup(v, Head(names))))

\* join on v, whose length is that number of elements: a length above
\* 2 ^ 32 - 1 is a TypeError
JoinOf(v, length) ==
    IF Less(ArrayLengthLimit, length) THEN TypeError
    ELSE JoinFrom(v, Ascending({k \in IndexNames(v) : Less(NameNumber(k), length)}),
                  length, 0, <<>>)

\* Array.prototype.join on v, whose length is that number
Join(v, length) ==
    IF Thrown(length) THEN length ELSE JoinOf(v, LengthOf(SignedFrom(length.text, 1)))

\* ToPrimitive of an array or an object: what its toString gives; no
\* valueOf gives a primitive
ToPrimitive(v) ==
    IF ToStringMethod(v) = "none" THEN TypeError
    ELSE IF ToStringMethod(v) = "Object" THEN ObjectText
    ELSE IF ~ArrayMethod(v, <<"j", "o", "i", "n">>) THEN ObjectText
    ELSE Join(v, ToNumber(Lookup(v, LengthName)))

\* String(v)
ToStringOf(v) ==
    IF v.kind \in {"string", "number", "boolean"} THEN Str(v.text)
    ELSE IF v.kind = "undefined" THEN Str(<<"u", "n", "d", "e", "f", "i", "n", "e", "d">>)
    ELSE IF v.kind = "null" THEN Str(<<"n", "u", "l", "l">>)
    ELSE ToPrimitive(v)

\* the number of a primitive, a thrown outcome as it is
PrimitiveToNumber(p) ==
    IF Thrown(p) \/ p.kind = "number" THEN p
    ELSE IF p.kind = "undefined" THEN Num(NaNText)
    ELSE IF p.kind = "null" THEN Integer(0)
    ELSE IF p.kind = "boolean" THEN Integer(IF p.text = <<"t", "r", "u", "e">> THEN 1 ELSE 0)
    ELSE StringToNumber(p.text)

\* Number(v)
ToNumber(v) ==
    IF v.kind \in {"array", "object"} THEN PrimitiveToNumber(ToPrimitive(v))
    ELSE PrimitiveToNumber(v)

\* ToPropertyKey
ToPropertyKey(v) == ToStringOf(v)

\* ------------------------------------------------------------------ state
VARIABLES
    objectsArray,          \* archive.$objects of the plist decodeHighlights parsed
    resolveStack,          \* the calls of resolveUIDs in progress, innermost last
    resolved,              \* what resolveUIDs returned to decodeHighlights
    decodeStatus,          \* the step decodeHighlights has reached
    written,               \* the entries the archive was built from
    data,                  \* the buffer parseZipArchive reads
    searchOffset,          \* parseZipArchive: i of the backward search
    currentOffset,         \* parseZipArchive: the central directory header read next
    files,                 \* parseZipArchive: the files extracted so far
    zipStatus,             \* the step parseZipArchive has reached
    strictMode,            \* NSKeyedArchiverDecoder.strictMode
    booknotesData,         \* the rows processNotes has read, as mapped and decoded
    topicClassification,   \* ContentExtractor.topicClassification
    topics,                \* ContentExtractor.topics, in insertion order
    mediaCollection,       \* ContentExtractor.mediaCollection.mediaItems, in insertion order
    notes,                 \* ContentExtractor.notes
    unionFind,             \* ContentExtractor.unionFind
    contentGroups,         \* the groups extractAllContent returns
    deduplicatedGroups,    \* the groups deduplicateContent returns
    deduplicationStats,    \* ContentDeduplicator.deduplicationStats
    pc,                    \* the step importMarginNoteData has reached
    importStats,           \* MarginNoteImporter.importStats
    config,                \* MarginNoteImporter.config: strictDecoding and outputDirectory
    importResults,         \* what the calls of importMarginNoteData returned
    importCalls,           \* the calls of importMarginNoteData that have ended, for the claims
    now,                   \* the clock that new Date() reads
    binaryData,            \* the buffer handed to parsePlist
    plistData              \* what parsePlist returned

resolverVars == <<objectsArray, resolveStack, resolved, decodeStatus>>

archiveVars == <<written, data, searchOffset, currentOffset, files, zipStatus>>

extractorVars == <<strictMode, booknotesData, topicClassification, topics, mediaCollection,
                   notes, unionFind,
                   contentGroups, deduplicatedGroups, deduplicationStats, pc>>

importerVars == <<importStats, config, importResults, importCalls, now>>

decoderVars == <<binaryData, plistData>>

vars == <<resolverVars, archiveVars, extractorVars, importerVars, decoderVars>>

\* a SimpleZBookNoteConverter that has decoded nothing yet
ResolverIdle ==
    /\ objectsArray = <<>>
    /\ resolveStack = <<>>
    /\ resolved = Undefined
    /\ decodeStatus = "idle"

\* a MarginNoteDatabaseParser that has read nothing yet
ArchiveIdle ==
    /\ written = <<>>
    /\ data = <<>>
    /\ searchOffset = 0
    /\ currentOffset = 0
    /\ files = <<>>
    /\ zipStatus = "idle"

\* new ContentExtractor(), new ContentDeduplicator()
ExtractorIdle ==
    /\ booknotesData = <<>>
    /\ topicClassification = NewTopicClassification
    /\ topics = <<>>
    /\ mediaCollection = <<>>
    /\ notes = <<>>
    /\ unionFind = NewUnionFind
    /\ contentGroups = <<>>
    /\ deduplicatedGroups = <<>>
    /\ deduplicationStats = NewDeduplicationStats
    /\ pc = "processTopics"

\* getDefaultConfig
DefaultConfig == [strictDecoding |-> FALSE, outputDirectory |-> "./obsidian_import"]

\* the importStats of the constructor: the clock is read, no call has ended
NewImportStats ==
    [startTime |-> 0, ended |-> FALSE, endTime |-> 0, filesProcessed |-> 0,
     notesImported |-> 0, errors |-> 0, warnings |-> 0]

\* new MarginNoteImporter(): no call has ended
ImporterIdle ==
    /\ importStats = NewImportStats
    /\ config = DefaultConfig
    /\ importResults = <<>>
    /\ importCalls = <<>>
    /\ now = 0

\* no buffer was handed to parsePlist
DecoderIdle ==
    /\ binaryData = <<>>
    /\ plistData = [parsed |-> FALSE, objects |-> <<>>]

Init ==
    /\ ResolverIdle
    /\ ArchiveIdle
    /\ strictMode = FALSE
    /\ ExtractorIdle
    /\ ImporterIdle
    /\ DecoderIdle

RECURSIVE AddTopicsFrom(_, _)
AddTopicsFrom(tc, rows) ==
    IF rows = <<>> THEN tc ELSE AddTopicsFrom(addTopic(tc, TopicFromRow(Head(rows))), Tail(rows))

\* this.topics.set(topic.topicId, topic) for every row: a key already present
\* keeps its place
RECURSIVE SetTopicsFrom(_, _)
SetTopicsFrom(map, rows) ==
    IF rows = <<>> THEN map
    ELSE LET topic == TopicFromRow(Head(rows))
             known == {i \in 1..Len(map) : map[i].topicId = topic.topicId}
         IN SetTopicsFrom(IF known = {} THEN Append(map, topic)
                          ELSE [map EXCEPT ![CHOOSE i \in known : TRUE] = topic],
                          Tail(rows))

\* A binary column: an ArrayBuffer with its bytes, a string with its
\* characters, another kind of value (a Uint8Array), or no value.
Blob(type, bytes) == [type |-> type, bytes |-> bytes, text |-> <<>>]
StringBlob(text) == [type |-> "string", bytes |-> <<>>, text |-> text]
NoBlob == Blob("none", <<>>)

PNG_IMAGE == "png_image"
APPLE_INK == "apple_ink"
PngSignature == <<137, 80, 78, 71>>

\* MNMediaDataImpl.fromDatabaseRow: the media is an image when its data is an
\* ArrayBuffer that starts with the PNG signature
MediaFromRow(row) ==
    [mediaHash |-> row.ZMD5,
     mediaType |-> IF row.ZDATA.type = "ArrayBuffer" /\ StartsWith(row.ZDATA.bytes, PngSignature)
                   THEN PNG_IMAGE ELSE UNKNOWN]

\* processMediaData: mediaItems.set(media.mediaHash, media) for every row
RECURSIVE processMediaData(_, _)
processMediaData(items, rows) ==
    IF rows = <<>> THEN items
    ELSE LET media == MediaFromRow(Head(rows))
             known == {i \in 1..Len(items) : items[i].mediaHash = media.mediaHash}
         IN processMediaData(IF known = {} THEN Append(items, media)
                             ELSE [items EXCEPT ![CHOOSE i \in known : TRUE] = media],
                             Tail(rows))

\* extractAllContent, steps 1 and 2, on media rows drawn from mediaInputs and
\* topic rows drawn from topicInputs
processTopics(mediaInputs, topicInputs) ==
    /\ pc = "processTopics"
    /\ \E mediaData \in mediaInputs :
          mediaCollection' = processMediaData(mediaCollection, mediaData)
    /\ \E topicsData \in topicInputs :
          /\ topics' = SetTopicsFrom(topics, topicsData)
          /\ topicClassification' = AddTopicsFrom(topicClassification, topicsData)
    /\ pc' = "processNotes"
    /\ UNCHANGED <<booknotesData, notes, unionFind, contentGroups, deduplicatedGroups,
                   deduplicationStats>>
    /\ UNCHANGED <<resolverVars, archiveVars, strictMode, importerVars, decoderVars>>

\* processNotes, "Extract text features": when the note has text, the features
\* of the text replace its three lists
ExtractTextFeatures(note) ==
    LET allText == getAllText(note)
        features == extractContentFeatures(allText)
    IN IF allText # <<>>
       THEN [note EXCEPT !.hashtags = features.hashtags,
                         !.internalLinks = features.links,
                         !.formattedText = features.otherText]
       ELSE note

\* extractAllContent, step 3, one turn of the loop: the note mapped from the
\* next row, with what its binary columns and media list decode to, gets its
\* text features and is stored under its id
processNote(mappedNotes) ==
    /\ pc = "processNotes"
    /\ \E note \in mappedNotes :
          /\ booknotesData' = Append(booknotesData, note)
          /\ notes' = NotesSet(notes, ExtractTextFeatures(note))
    /\ UNCHANGED <<topicClassification, topics, mediaCollection, unionFind, contentGroups, deduplicatedGroups,
                   deduplicationStats, pc>>
    /\ UNCHANGED <<resolverVars, archiveVars, strictMode, importerVars, decoderVars>>

\* extractAllContent, step 4, once the rows are exhausted
GroupRelatedContent ==
    /\ pc = "processNotes"
    /\ LET g == groupRelatedContent(unionFind, notes)
       IN /\ unionFind' = g.unionFind
          /\ contentGroups' = g.contentGroups
    /\ pc' = "identifyMasterNotes"
    /\ UNCHANGED <<booknotesData, topicClassification, topics, mediaCollection, notes, deduplicatedGroups,
                   deduplicationStats>>
    /\ UNCHANGED <<resolverVars, archiveVars, strictMode, importerVars, decoderVars>>

\* extractAllContent, step 5
IdentifyMasterNotes ==
    /\ pc = "identifyMasterNotes"
    /\ contentGroups' = identifyMasterNotes(topicClassification, notes, contentGroups)
    /\ pc' = "processContentFeatures"
    /\ UNCHANGED <<booknotesData, topicClassification, topics, mediaCollection, notes, unionFind,
                   deduplicatedGroups, deduplicationStats>>
    /\ UNCHANGED <<resolverVars, archiveVars, strictMode, importerVars, decoderVars>>

\* extractAllContent, step 6
ProcessContentFeatures ==
    /\ pc = "processContentFeatures"
    /\ notes' = processContentFeatures(notes, contentGroups)
    /\ pc' = "deduplicateContent"
    /\ UNCHANGED <<booknotesData, topicClassification, topics, mediaCollection, unionFind, contentGroups,
                   deduplicatedGroups, deduplicationStats>>
    /\ UNCHANGED <<resolverVars, archiveVars, strictMode, importerVars, decoderVars>>

\* importMarginNoteData, step 2
DeduplicateContent ==
    /\ pc = "deduplicateContent"
    /\ LET d == deduplicateContent(notes, contentGroups)
       IN /\ notes' = d.notes
          /\ deduplicatedGroups' = d.groups
          /\ deduplicationStats' = d.stats
    /\ pc' = "done"
    /\ UNCHANGED <<booknotesData, topicClassification, topics, mediaCollection, unionFind, contentGroups>>
    /\ UNCHANGED <<resolverVars, archiveVars, strictMode, importerVars, decoderVars>>

\* ----------------------------------------------------------------- inputs
\* A mapped note: what fromDatabaseRow builds from a row that has only an id.
MappedNote(id) ==
    [noteId |-> id, topicId |-> "", groupNoteId |-> <<>>, evernoteId |-> <<>>,
     excerptText |-> <<>>, notesText |-> <<>>, noteTitle |-> <<>>,
     formattedText |-> <<>>, hashtags |-> <<>>, internalLinks |-> <<>>,
     mediaAttachments |-> <<>>, excerptPic |-> NoPic]

IdNames == <<"A", "B", "C", "D", "E", "F">>

\* the id of the i-th row
NoteId(i) == <<IdNames[i]>>

UnknownId == <<"X">>     \* an id that no row carries

\* the relations a note states
RelationCount(note) ==
    (IF note.groupNoteId # <<>> THEN 1 ELSE 0) + (IF note.evernoteId # <<>> THEN 1 ELSE 0)
    + Len(note.internalLinks)

RECURSIVE RelationsIn(_)
RelationsIn(map) == IF map = <<>> THEN 0 ELSE RelationCount(Head(map)) + RelationsIn(Tail(map))

\* Rows whose relations vary: the next row names, in its groupNoteId, in its
\* evernoteId and in the links its excerpt and its notes consist of, any of
\* the ids of the import or the unknown id, as long as the import states
\* MaxRelations relations at most.
RelatedNotes ==
    LET targets == {NoteId(i) : i \in 1..MaxNotes} \cup {UnknownId}
        budget == MaxRelations - RelationsIn(notes)
    IN IF Len(notes) >= MaxNotes THEN {}
       ELSE {[MappedNote(NoteId(Len(notes) + 1)) EXCEPT
                  !.groupNoteId = g, !.evernoteId = e,
                  !.excerptText = IF Len(l) >= 1 THEN LinkPrefix \o l[1] ELSE <<>>,
                  !.notesText = IF Len(l) >= 2 THEN LinkPrefix \o l[2] ELSE <<>>,
                  !.noteTitle = <<"t">>]
                : <<g, e, l>> \in
                    {x \in ({<<>>} \cup targets) \X ({<<>>} \cup targets)
                             \X ({<<>>} \cup {<<t>> : t \in targets}
                                        \cup {<<t, u>> : t, u \in targets}) :
                        (IF x[1] # <<>> THEN 1 ELSE 0) + (IF x[2] # <<>> THEN 1 ELSE 0)
                            + Len(x[3]) <= budget}}

ProcessTopics == processTopics({<<>>}, {<<>>})

ProcessNote == processNote(RelatedNotes)

Next ==
    \/ ProcessTopics
    \/ ProcessNote
    \/ GroupRelatedContent
    \/ IdentifyMasterNotes
    \/ ProcessContentFeatures
    \/ DeduplicateContent

Spec == Init /\ [][Next]_vars

\* ------------------------------------------------------- claims: grouping
\* the ids two records are related through: an edge per stated relation
RelationEdges(map) ==
    UNION {  {{n.noteId, n.groupNoteId} : x \in IF n.groupNoteId # <<>> THEN {1} ELSE {}}
        \cup {{n.noteId, n.evernoteId} : x \in IF n.evernoteId # <<>> THEN {1} ELSE {}}
        \cup {{n.noteId, l} : l \in {k \in Range(n.internalLinks) : NotesHas(map, k)}}
        : n \in Range(map)}

\* the ids reachable from the ids of S along edges
RECURSIVE ReachableFrom(_, _)
ReachableFrom(edges, S) ==
    LET T == S \cup UNION {e \in edges : e \cap S # {}}
    IN IF T = S THEN S ELSE ReachableFrom(edges, T)

Connected(map, a, b) == b \in ReachableFrom(RelationEdges(map), {a})

GroupsHolding(groups, id) == {i \in 1..Len(groups) : Has(groups[i].noteIds, id)}

InSameGroup(groups, a, b) == GroupsHolding(groups, a) \cap GroupsHolding(groups, b) # {}

Grouped == pc \in {"identifyMasterNotes", "processContentFeatures", "deduplicateContent", "done"}

Extracted == pc \in {"deduplicateContent", "done"}

\* a, b, c are the records of the chain a -groupNoteId-> b -externalId-> c
IsChain(a, b, c) ==
    /\ a.groupNoteId = b.noteId /\ a.evernoteId = <<>> /\ a.internalLinks = <<>>
    /\ b.groupNoteId = <<>> /\ b.evernoteId = c.noteId /\ b.internalLinks = <<>>
    /\ c.groupNoteId = <<>> /\ c.evernoteId = <<>> /\ c.internalLinks = <<>>
    /\ Cardinality({a.noteId, b.noteId, c.noteId}) = 3

\* C1: when groupRelatedContent returns, two distinct known records are in
\* the same ContentGroup exactly when a chain of relations (groupNoteId,
\* externalId, link id naming a known record) connects them, whatever the
\* order of the records; so the records of a chain A -> B -> C share a group.
C1_GroupsAreRelationClasses ==
    pc = "identifyMasterNotes" =>
        \A i, j \in 1..Len(notes) :
            i # j => (InSameGroup(contentGroups, notes[i].noteId, notes[j].noteId)
                        <=> Connected(notes, notes[i].noteId, notes[j].noteId))

\* C1 witness: the chain A -> B -> C, supplied with C first, is one group
C1_Witness ==
    /\ pc = "identifyMasterNotes"
    /\ Len(notes) = 3
    /\ \E i, j \in 2..3 : IsChain(notes[i], notes[j], notes[1])
    /\ \E g \in Range(contentGroups) : Range(g.noteIds) = {NoteId(1), NoteId(2), NoteId(3)}

\* C2: after grouping every processed record is a member of exactly one
\* ContentGroup, and a record related to no other record is the only member
\* and the master of its group.
C2_EveryNoteInOneGroup ==
    Grouped =>
        \A i \in 1..Len(notes) :
            LET id == notes[i].noteId
            IN /\ Cardinality(GroupsHolding(contentGroups, id)) = 1
               /\ (\A j \in 1..Len(notes) : j # i => ~Connected(notes, id, notes[j].noteId))
                    => \E g \in Range(contentGroups) :
                          g.noteIds = <<id>> /\ g.masterNote = id

\* a group as the invariant of the data model wants it
WellFormedGroup(map, g) ==
    /\ \A id \in Range(g.noteIds) : NotesHas(map, id)
    /\ g.masterNote # NoNote
    /\ Has(g.noteIds, g.masterNote)
    /\ Has(g.notes, g.masterNote)
    /\ NotesHas(map, g.masterNote)
    /\ g.masterNoteId = NotesGet(map, g.masterNote).noteId

\* C5: every group extractAllContent returns, and every group
\* deduplicateContent returns, has only known records as members and a master
\* that is one of its members and whose id is the group's masterNoteId.
C5_GroupsWellFormed ==
    /\ pc \in {"processContentFeatures", "deduplicateContent", "done"}
          => \A g \in Range(contentGroups) : WellFormedGroup(notes, g)
    /\ pc = "done" => \A g \in Range(deduplicatedGroups) : WellFormedGroup(notes, g)

\* C5 witness: a group with an unknown id among its relations was handed on,
\* and its deduplicated group is built around another master than the grouper's
C5_Witness ==
    /\ pc = "done"
    /\ \E n \in Range(notes) : n.groupNoteId = UnknownId
    /\ \E g \in Range(contentGroups) :
          /\ Len(g.noteIds) >= 2
          /\ \E d \in Range(deduplicatedGroups) :
                d.masterNote # g.masterNote /\ Has(g.noteIds, d.masterNote)

\* ----------------------------------------------- inputs: master selection
\* Topic rows: four ways of classifying the topics T1 and T2.
ClassifiedTopics ==
    {<<[topicId |-> "T1", forumOwner |-> {"projectTopic"}],
       [topicId |-> "T2", forumOwner |-> {"bookTopic"}]>>,
     <<[topicId |-> "T1", forumOwner |-> {"bookTopic"}],
       [topicId |-> "T2", forumOwner |-> {"reviewTopic"}]>>,
     <<[topicId |-> "T1", forumOwner |-> {"reviewTopic", "bookTopic"}],
       [topicId |-> "T1", forumOwner |-> {"projectTopic"}],
       [topicId |-> "T2", forumOwner |-> NoOwner]>>,
     <<[topicId |-> "T1", forumOwner |-> BadOwner],
       [topicId |-> "T2", forumOwner |-> {"reviewTopic"}]>>}

\* Rows whose topic and variant vary: the next row belongs to no topic, to
\* T1 or to T2, and is an unrelated original, a merged record of an unknown
\* original, or an original tied by its externalId to the unknown id or to
\* the first row.
TopicNotes ==
    IF Len(notes) >= MaxNotes THEN {}
    ELSE {[MappedNote(NoteId(Len(notes) + 1)) EXCEPT
               !.topicId = t, !.groupNoteId = r[1], !.evernoteId = r[2],
               !.noteTitle = <<"t">>]
             : t \in {"", "T1", "T2"},
               r \in {<<<<>>, <<>>>>, <<UnknownId, <<>>>>, <<<<>>, UnknownId>>,
                      <<<<>>, NoteId(1)>>}}

ProcessClassifiedTopics == processTopics({<<>>}, ClassifiedTopics)

ProcessTopicNote == processNote(TopicNotes)

NextMaster ==
    \/ ProcessClassifiedTopics
    \/ ProcessTopicNote
    \/ GroupRelatedContent
    \/ IdentifyMasterNotes
    \/ ProcessContentFeatures
    \/ DeduplicateContent

SpecMaster == Init /\ [][NextMaster]_vars

\* ----------------------------------------------- claims: master selection
MastersIdentified == pc \in {"processContentFeatures", "deduplicateContent", "done"}

\* the classification bucket of a record and its place in the priority order
BucketOf(tc, n) ==
    IF n.topicId \in tc.projectTopics THEN PROJECT
    ELSE IF n.topicId \in tc.bookTopics THEN BOOK
    ELSE IF n.topicId \in tc.reviewTopics THEN REVIEW_TOPIC
    ELSE "other"

Priority(bucket) ==
    CASE bucket = PROJECT -> 1 [] bucket = BOOK -> 2 [] bucket = REVIEW_TOPIC -> 3
      [] OTHER -> 4

MembersOf(g) == {NotesGet(notes, id) : id \in Range(g.noteIds)}

MasterOf(g) == NotesGet(notes, g.masterNote)

\* C3: in every group of two or more records the master belongs to the
\* highest-priority non-empty bucket in the order Project > Book >
\* ReviewTopic > Other; a Project record beats a Book record.
C3_MasterFromBestBucket ==
    MastersIdentified =>
        \A g \in Range(contentGroups) :
            Len(g.noteIds) >= 2 =>
                \A m \in MembersOf(g) :
                    Priority(BucketOf(topicClassification, MasterOf(g)))
                        <= Priority(BucketOf(topicClassification, m))

\* C3 witness: a group of a Book record followed by a Project record has the
\* Project record as master
C3_Witness ==
    /\ MastersIdentified
    /\ \E g \in Range(contentGroups) :
          /\ Len(g.noteIds) = 2
          /\ BucketOf(topicClassification, NotesGet(notes, g.noteIds[1])) = BOOK
          /\ BucketOf(topicClassification, NotesGet(notes, g.noteIds[2])) = PROJECT
          /\ g.masterNote = g.noteIds[2]

\* the candidates of a group: the originals of the winning bucket, or the
\* whole winning bucket when it holds no original
CandidatesOf(g) ==
    LET best == {m \in MembersOf(g) :
                    BucketOf(topicClassification, m)
                        = BucketOf(topicClassification, MasterOf(g))}
        originals == {m \in best : m.groupNoteId = <<>>}
    IN IF originals # {} THEN originals ELSE best

\* the ids in the order in which the relations mention them, the records
\* being read in input order: the record's id, then the related id
RECURSIVE MentionsFrom(_, _)
MentionsFrom(map, i) ==
    IF i > Len(map) THEN <<>>
    ELSE LET n == map[i]
             known == SelectSeq(n.internalLinks, LAMBDA l : NotesHas(map, l))
         IN (IF n.groupNoteId # <<>> THEN <<n.noteId, n.groupNoteId>> ELSE <<>>)
            \o (IF n.evernoteId # <<>> THEN <<n.noteId, n.evernoteId>> ELSE <<>>)
            \o (IF known # <<>> THEN <<n.noteId>> \o known ELSE <<>>)
            \o MentionsFrom(map, i + 1)

MentionOrder(map) == FirstOccurrences(MentionsFrom(map, 1))

\* C4 as claimed: the master of a group of two or more is, among the
\* candidates of the winning bucket, the first in the input order of the
\* record collection.
C4_MasterFirstInInputOrder ==
    MastersIdentified =>
        \A g \in Range(contentGroups) :
            Len(g.noteIds) >= 2 =>
                \A m \in CandidatesOf(g) :
                    NotesIndex(notes, g.masterNote) <= NotesIndex(notes, m.noteId)

\* C4 as amended: the master of a group of two or more is a candidate of the
\* winning bucket, and among the candidates it is the first in the order in
\* which the relations, read in input order, mention the ids.
C4_MasterFirstMentioned ==
    MastersIdentified =>
        \A g \in Range(contentGroups) :
            Len(g.noteIds) >= 2 =>
                /\ MasterOf(g) \in CandidatesOf(g)
                /\ \A m \in CandidatesOf(g) :
                      IndexOf(MentionOrder(notes), g.masterNote)
                          <= IndexOf(MentionOrder(notes), m.noteId)

\* C4 witness: two originals of one bucket form a group, and the one that
\* comes later in input order is mentioned first and chosen
C4_Witness ==
    /\ MastersIdentified
    /\ \E g \in Range(contentGroups) :
          /\ Len(g.noteIds) >= 2
          /\ Cardinality(CandidatesOf(g)) = 2
          /\ MasterOf(g).groupNoteId = <<>>
          /\ \E m \in CandidatesOf(g) :
                /\ NotesIndex(notes, m.noteId) < NotesIndex(notes, g.masterNote)
                /\ IndexOf(MentionOrder(notes), g.masterNote)
                       < IndexOf(MentionOrder(notes), m.noteId)

\* ------------------------------------------------- inputs: deduplication
MaxContentNotes == 2
MaxContent == 2

\* the content fields a mapped row fills
ContentCount(note) ==
    (IF note.excerptText # <<>> THEN 1 ELSE 0) + (IF note.notesText # <<>> THEN 1 ELSE 0)
    + (IF note.noteTitle # <<>> THEN 1 ELSE 0) + (IF note.hashtags # <<>> THEN 1 ELSE 0)
    + (IF note.mediaAttachments # <<>> THEN 1 ELSE 0)
    + (IF note.excerptPic # NoPic THEN 1 ELSE 0)

RECURSIVE ContentIn(_)
ContentIn(rows) == IF rows = <<>> THEN 0 ELSE ContentCount(Head(rows)) + ContentIn(Tail(rows))

\* Rows whose content varies: the next row is an original tied to the unknown
\* id by its evernoteId, or a merged record of the unknown id or, after the
\* first row, of the first row; each of its text fields is absent, plain, padded, blank
\* or a hashtag line; its ZNOTES column decodes to no hashtag or to one
\* hashtag twice; its media list names no, one or two attachments; its
\* excerptPic is absent, empty or a region. The import fills MaxContent
\* content fields at most.
ContentNotes ==
    LET budget == MaxContent - ContentIn(booknotesData)
        m1 == [mediaHash |-> "m1"]
        m2 == [mediaHash |-> "m2"]
    IN IF Len(notes) >= MaxContentNotes THEN {}
       ELSE {[MappedNote(NoteId(Len(notes) + 1)) EXCEPT
                  !.groupNoteId = r[1], !.evernoteId = r[2],
                  !.excerptText = c[1], !.notesText = c[2], !.noteTitle = c[3],
                  !.hashtags = c[4], !.mediaAttachments = c[5], !.excerptPic = c[6]]
                : r \in {<<<<>>, UnknownId>>, <<UnknownId, <<>>>>}
                            \cup (IF notes = <<>> THEN {} ELSE {<<NoteId(1), <<>>>>}),
                  c \in {x \in {<<>>, <<"a">>, <<"a", " ">>, <<" ">>}
                                 \X {<<>>, <<"X">>, <<Hash, "t">>}
                                 \X {<<>>, <<"a">>, <<Hash, "t">>}
                                 \X {<<>>, <<<<Hash, "t">>, <<Hash, "t">>>>}
                                 \X {<<>>, <<m1>>, <<m1, m1>>, <<m2>>}
                                 \X {NoPic, EmptyPic, RegionPic} :
                            Cardinality({i \in 1..5 : x[i] # <<>>})
                                + (IF x[6] # NoPic THEN 1 ELSE 0) <= budget}}

ProcessContentNote == processNote(ContentNotes)

NextDedup ==
    \/ ProcessTopics
    \/ ProcessContentNote
    \/ GroupRelatedContent
    \/ IdentifyMasterNotes
    \/ ProcessContentFeatures
    \/ DeduplicateContent

SpecDedup == Init /\ [][NextDedup]_vars

\* -------------------------------------------------- claims: deduplication
Deduplicated == pc = "done"

TextFields == {"excerptText", "notesText", "noteTitle"}

\* the row a record was mapped from
RowOf(id) == NotesGet(booknotesData, id)

\* the merged and the original members of a group, among the given records
MergedOf(map, g) == {n \in Range(NotesOf(map, g)) : n.groupNoteId # <<>>}

OriginalsOf(map, g) == {n \in Range(NotesOf(map, g)) : n.groupNoteId = <<>>}

Mixed(map, g) == MergedOf(map, g) # {} /\ OriginalsOf(map, g) # {}

\* the output groups made from a group
OutputsOf(groups, g) == {d \in Range(groups) : Has(g.noteIds, d.masterNote)}

\* two rows sharing a groupNoteId relation: one names the other, or both name
\* the same record
SharesGroupNoteId(a, b) ==
    \/ a.groupNoteId = b.noteId
    \/ b.groupNoteId = a.noteId
    \/ a.groupNoteId # <<>> /\ a.groupNoteId = b.groupNoteId

\* the record holds every text field that only one of the two rows has
Combines(record, a, b) ==
    \A f \in TextFields :
        /\ a[f] # <<>> /\ b[f] = <<>> => record[f] = a[f]
        /\ b[f] # <<>> /\ a[f] = <<>> => record[f] = b[f]

\* C6 as stated: two rows sharing a groupNoteId relation yield one group
\* holding one record that combines both rows' unique text fields
C6_SharedGroupIdCombined ==
    Deduplicated /\ Len(booknotesData) = 2
        /\ SharesGroupNoteId(booknotesData[1], booknotesData[2])
    => /\ Len(deduplicatedGroups) = 1
       /\ Len(deduplicatedGroups[1].notes) = 1
       /\ Combines(NotesGet(notes, deduplicatedGroups[1].masterNote),
                   booknotesData[1], booknotesData[2])

\* C6 amended: two rows sharing a groupNoteId relation yield one group holding
\* one record; when one of the rows is an original, the record is the merged
\* row and combines both rows' unique text fields; when both rows carry a
\* groupNoteId, the record keeps the text fields of its own row only
C6_SharedGroupIdOneRecord ==
    Deduplicated /\ Len(booknotesData) = 2
        /\ SharesGroupNoteId(booknotesData[1], booknotesData[2])
    => /\ Len(deduplicatedGroups) = 1
       /\ Len(deduplicatedGroups[1].notes) = 1
       /\ LET a == booknotesData[1]
              b == booknotesData[2]
              record == NotesGet(notes, deduplicatedGroups[1].masterNote)
          IN IF a.groupNoteId = <<>> \/ b.groupNoteId = <<>>
             THEN /\ record.groupNoteId # <<>>
                  /\ Combines(record, a, b)
             ELSE \A f \in TextFields : record[f] = RowOf(record.noteId)[f]

\* C6 witness: the second row names the first, an original, as its
\* groupNoteId; each row has a text field the other lacks; the one record of
\* the one group has both
C6_Witness ==
    /\ Deduplicated /\ Len(booknotesData) = 2
    /\ booknotesData[2].groupNoteId = booknotesData[1].noteId
    /\ booknotesData[1].groupNoteId = <<>>
    /\ Len(deduplicatedGroups) = 1
    /\ LET a == booknotesData[1]
           b == booknotesData[2]
           record == NotesGet(notes, deduplicatedGroups[1].masterNote)
       IN \E f, h \in TextFields :
             /\ a[f] # <<>> /\ b[f] = <<>> /\ record[f] = a[f]
             /\ b[h] # <<>> /\ a[h] = <<>> /\ record[h] = b[h]

\* C7: in a group of merged and original records, each text field of the
\* output master keeps the master's own value when it had one, and otherwise
\* takes the value of an original that has one
C7_TextBackfilled ==
    [][pc = "deduplicateContent" /\ pc' = "done"
       => \A g \in Range(contentGroups) :
             Mixed(notes, g)
             => \E d \in OutputsOf(deduplicatedGroups', g) :
                   LET own == NotesGet(notes, d.masterNote)
                       output == NotesGet(notes', d.masterNote)
                       having(f) == {o \in OriginalsOf(notes, g) : o[f] # <<>>}
                   IN /\ own.groupNoteId # <<>>
                      /\ \A f \in TextFields :
                            IF own[f] # <<>> THEN output[f] = own[f]
                            ELSE IF having(f) # {}
                                 THEN \E o \in having(f) : output[f] = o[f]
                                 ELSE output[f] = <<>>]_vars

\* C7 witness: a merged row without notesText, grouped with an original whose
\* notesText is "X", is output with notesText "X" and its own excerpt
C7_Witness ==
    /\ Deduplicated
    /\ \E g \in Range(contentGroups) :
          /\ Mixed(notes, g)
          /\ \E d \in OutputsOf(deduplicatedGroups, g) :
                /\ RowOf(d.masterNote).notesText = <<>>
                /\ RowOf(d.masterNote).excerptText # <<>>
                /\ \E o \in OriginalsOf(notes, g) : o.notesText = <<"X">>
                /\ NotesGet(notes, d.masterNote).notesText = <<"X">>
                /\ NotesGet(notes, d.masterNote).excerptText
                       = RowOf(d.masterNote).excerptText

\* the entries of seq that are the first with their key, in order
FirstByKey(seq, Key(_)) ==
    LET keep == {i \in 1..Len(seq) : \A j \in 1..(i - 1) : Key(seq[j]) # Key(seq[i])}
    IN [k \in 1..Cardinality(keep) |->
            seq[CHOOSE i \in keep : Cardinality({j \in keep : j <= i}) = k]]

\* the lists of the group's original records, one after the other
RECURSIVE ListsOf(_, _)
ListsOf(records, list) ==
    IF records = <<>> THEN <<>> ELSE Head(records)[list] \o ListsOf(Tail(records), list)

OriginalLists(map, g, list) ==
    ListsOf(SelectSeq(NotesOf(map, g), LAMBDA n : n.groupNoteId = <<>>), list)

SameValue(x) == x

HashOf(m) == m.mediaHash

\* own entries, then the entries of others that own does not hold, each once
OwnThenNew(own, others, Key(_)) ==
    own \o FirstByKey(SelectSeq(others,
                                LAMBDA x : \A i \in 1..Len(own) : Key(own[i]) # Key(x)),
                      Key)

\* C8 as stated: after a group of merged and original records is
\* deduplicated, each list of the master is the master's own entries in their
\* order, followed by every entry of the originals that the master did not
\* hold, keyed by value and media by hash
C8_ListsOwnThenNew ==
    [][pc = "deduplicateContent" /\ pc' = "done"
       => \A g \in Range(contentGroups) :
             Mixed(notes, g)
             => \E d \in OutputsOf(deduplicatedGroups', g) :
                   LET own == NotesGet(notes, d.masterNote)
                       output == NotesGet(notes', d.masterNote)
                   IN /\ \A list \in {"hashtags", "internalLinks", "formattedText"} :
                            output[list] = OwnThenNew(own[list],
                                                      OriginalLists(notes, g, list),
                                                      SameValue)
                      /\ output.mediaAttachments
                            = OwnThenNew(own.mediaAttachments,
                                         OriginalLists(notes, g, "mediaAttachments"),
                                         HashOf)]_vars

\* C8 amended: each list of the master is the first occurrences, in order, of
\* the master's own entries followed by the originals' entries, where hashtags
\* and links are compared by value, other-text fragments after trimming, and
\* media by hash; so every entry of an original is in the list up to that
\* comparison, and the master's own entries come first
C8_ListsFirstOccurrences ==
    [][pc = "deduplicateContent" /\ pc' = "done"
       => \A g \in Range(contentGroups) :
             Mixed(notes, g)
             => \E d \in OutputsOf(deduplicatedGroups', g) :
                   LET own == NotesGet(notes, d.masterNote)
                       output == NotesGet(notes', d.masterNote)
                       all(list) == own[list] \o OriginalLists(notes, g, list)
                   IN /\ output.hashtags = FirstByKey(all("hashtags"), SameValue)
                      /\ output.internalLinks = FirstByKey(all("internalLinks"), SameValue)
                      /\ output.formattedText
                            = FirstByKey(SelectSeq(all("formattedText"),
                                                   LAMBDA t : Trim(t) # <<>>), Trim)
                      /\ output.mediaAttachments
                            = FirstByKey(all("mediaAttachments"), HashOf)]_vars

\* C8 witness: the master held one attachment and one fragment, an original
\* holds another attachment and another fragment, and the master's lists are
\* its own entry followed by the original's
C8_Witness ==
    /\ Deduplicated
    /\ \E g \in Range(contentGroups) :
          /\ Mixed(notes, g)
          /\ \E d \in OutputsOf(deduplicatedGroups, g) :
                \E o \in OriginalsOf(notes, g) :
                   LET row == RowOf(d.masterNote)
                       output == NotesGet(notes, d.masterNote)
                   IN \/ /\ Len(row.mediaAttachments) = 1 /\ Len(o.mediaAttachments) = 1
                         /\ row.mediaAttachments # o.mediaAttachments
                         /\ output.mediaAttachments
                                = row.mediaAttachments \o o.mediaAttachments
                      \/ /\ Len(o.formattedText) = 1
                         /\ Len(output.formattedText) = 2
                         /\ output.formattedText[1] = row.excerptText
                         /\ output.formattedText[2] = o.formattedText[1]

\* no two entries of seq have the same key
NoRepeat(seq, Key(_)) ==
    \A i, j \in 1..Len(seq) : Key(seq[i]) = Key(seq[j]) => i = j

\* C9: every record output by deduplication has no repeated hashtag, link,
\* other-text fragment (compared after trimming, none empty) or attachment
\* (compared by hash), and what survives of the lists the final filter was
\* given is the first occurrence of every entry, in order
C9_NoRepeatedEntries ==
    [][pc = "deduplicateContent" /\ pc' = "done"
       => \A d \in Range(deduplicatedGroups') :
             LET output == NotesGet(notes', d.masterNote)
                 given == NotesGet(deduplicateContentGroups(notes, contentGroups).notes,
                                   d.masterNote)
             IN /\ NoRepeat(output.hashtags, SameValue)
                /\ NoRepeat(output.internalLinks, SameValue)
                /\ NoRepeat(output.formattedText, Trim)
                /\ \A i \in 1..Len(output.formattedText) : Trim(output.formattedText[i]) # <<>>
                /\ NoRepeat(output.mediaAttachments, HashOf)
                /\ output.hashtags = FirstByKey(given.hashtags, SameValue)
                /\ output.internalLinks = FirstByKey(given.internalLinks, SameValue)
                /\ output.formattedText
                      = FirstByKey(SelectSeq(given.formattedText,
                                             LAMBDA t : Trim(t) # <<>>), Trim)
                /\ output.mediaAttachments = FirstByKey(given.mediaAttachments, HashOf)]_vars

\* C9 witness: a row whose excerpt and title differ only by padding, or whose
\* ZNOTES column or media list names an entry twice, is output with that
\* entry once
C9_Witness ==
    /\ Deduplicated
    /\ \E d \in Range(deduplicatedGroups) :
          LET row == RowOf(d.masterNote)
              output == NotesGet(notes, d.masterNote)
          IN \/ /\ row.excerptText # row.noteTitle
                /\ Trim(row.excerptText) = Trim(row.noteTitle)
                /\ Trim(row.noteTitle) # <<>>
                /\ output.formattedText = <<row.excerptText>>
             \/ /\ Len(row.mediaAttachments) = 2
                /\ Len(output.mediaAttachments) = 1
             \/ /\ Len(row.hashtags) = 2 /\ getAllText(row) = <<>>
                /\ Len(output.hashtags) = 1

\* the content-richness score over text lengths measured by Measure
ScoreBy(note, Measure(_)) ==
    Measure(note.excerptText) + 2 * Measure(note.notesText) + 3 * Measure(note.noteTitle)
    + 10 * Len(note.hashtags) + 5 * Len(note.internalLinks) + 2 * Len(note.formattedText)
    + 15 * Len(note.mediaAttachments) + (IF note.excerptPic = RegionPic THEN 20 ELSE 0)

TrimmedLen(text) == Len(Trim(text))

\* C10 as stated: the merged record chosen as master has the maximum score
\* among the group's merged records, the score counting the lengths of the
\* text fields
C10_MasterHasMaxScore ==
    [][pc = "deduplicateContent" /\ pc' = "done"
       => \A g \in Range(contentGroups) :
             MergedOf(notes, g) # {}
             => \E d \in OutputsOf(deduplicatedGroups', g) :
                   /\ NotesGet(notes, d.masterNote) \in MergedOf(notes, g)
                   /\ \A m \in MergedOf(notes, g) :
                         ScoreBy(NotesGet(notes, d.masterNote), Len) >= ScoreBy(m, Len)]_vars

\* C10 amended: the merged record chosen as master has the maximum score among
\* the group's merged records, the score counting the lengths of the text
\* fields after trimming
C10_MasterHasMaxTrimmedScore ==
    [][pc = "deduplicateContent" /\ pc' = "done"
       => \A g \in Range(contentGroups) :
             MergedOf(notes, g) # {}
             => \E d \in OutputsOf(deduplicatedGroups', g) :
                   /\ NotesGet(notes, d.masterNote) \in MergedOf(notes, g)
                   /\ \A m \in MergedOf(notes, g) :
                         ScoreBy(NotesGet(notes, d.masterNote), TrimmedLen)
                             >= ScoreBy(m, TrimmedLen)]_vars

\* C10 witness: of two merged records of a group, the second in member order
\* has the higher score and is the master
C10_Witness ==
    /\ Deduplicated
    /\ \E g \in Range(contentGroups) :
          \E d \in OutputsOf(deduplicatedGroups, g) :
             \E m \in MergedOf(notes, g) :
                /\ m.noteId # d.masterNote
                /\ OriginalsOf(notes, g) = {}
                /\ IndexOf(g.noteIds, m.noteId) < IndexOf(g.noteIds, d.masterNote)
                /\ ScoreBy(NotesGet(notes, d.masterNote), TrimmedLen)
                       > ScoreBy(m, TrimmedLen)

\* ------------------------------------------------ SimpleZBookNoteConverter
MaxObjects == 2

\* The calls the engine's stack has room for: more than the deepest
\* resolution of a table of MaxObjects objects without a cycle.
MaxCallStack == 2 * MaxObjects + 2

\* objectsArray[uid] for a number: the element when the number is an index
\* of the table, undefined when it is not
ObjectAt(objects, uid) ==
    IF IsBelow(uid.text, Len(objects)) THEN objects[ParseDigits(0, uid.text) + 1] ELSE Undefined

\* 'UID' in obj && typeof obj.UID === 'number'
IsUidRef(obj) == Lookup(obj, UidName).kind = "number"

\* resolved[key] = value for the entries, in their order
RECURSIVE PutAll(_, _, _)
PutAll(result, names, values) ==
    IF names = <<>> THEN result
    ELSE PutAll(Put(result, Head(names), Head(values)), Tail(names), Tail(values))

\* a call resolveUIDs(obj, objectsArray) and the results of the calls it has made
Frame(obj) == [obj |-> obj, done |-> <<>>]

\* what the innermost call of resolveUIDs does next: it returns a value, or
\* calls resolveUIDs on another value
NextOf(frame, objects) ==
    IF frame.obj.kind \notin {"array", "object"} THEN [return |-> TRUE, value |-> frame.obj]
    ELSE IF frame.obj.kind = "array"
    THEN IF Len(frame.done) < Len(frame.obj.items)
         THEN [return |-> FALSE, value |-> frame.obj.items[Len(frame.done) + 1]]
         ELSE [return |-> TRUE, value |-> Arr(frame.done)]
    ELSE IF IsUidRef(frame.obj)
    THEN IF frame.done = <<>>
         THEN [return |-> FALSE, value |-> ObjectAt(objects, Lookup(frame.obj, UidName))]
         ELSE [return |-> TRUE, value |-> frame.done[1]]
    ELSE IF Len(frame.done) < Len(OwnKeys(frame.obj))
    THEN [return |-> FALSE,
          value |-> GetOwn(frame.obj, OwnKeys(frame.obj)[Len(frame.done) + 1])]
    ELSE [return |-> TRUE, value |-> PutAll(Fields(<<>>, <<>>), OwnKeys(frame.obj), frame.done)]

\* bplist.parseBuffer: the next object of the archive's $objects
ParseBuffer(objects) ==
    /\ decodeStatus = "idle"
    /\ Len(objectsArray) < MaxObjects
    /\ \E o \in objects : objectsArray' = Append(objectsArray, o)
    /\ UNCHANGED <<resolveStack, resolved, decodeStatus, archiveVars, extractorVars, importerVars, decoderVars>>

\* decodeHighlights: this.resolveUIDs(archive.$top.root, archive.$objects)
DecodeHighlights ==
    /\ decodeStatus = "idle"
    /\ objectsArray # <<>>
    /\ \E root \in 0..(Len(objectsArray) - 1) : resolveStack' = <<Frame(UidRef(root))>>
    /\ decodeStatus' = "resolveUIDs"
    /\ UNCHANGED <<objectsArray, resolved, archiveVars, extractorVars, importerVars, decoderVars>>

\* resolveUIDs: one call or one return of the recursion. A call the stack has
\* no room for raises a RangeError, which decodeHighlights catches.
ResolveUIDs ==
    /\ decodeStatus = "resolveUIDs"
    /\ LET depth == Len(resolveStack)
           next == NextOf(resolveStack[depth], objectsArray)
       IN IF ~next.return
          THEN IF depth >= MaxCallStack
               THEN /\ resolveStack' = <<>>
                    /\ decodeStatus' = "caught"
                    /\ UNCHANGED resolved
               ELSE /\ resolveStack' = Append(resolveStack, Frame(next.value))
                    /\ UNCHANGED <<resolved, decodeStatus>>
          ELSE IF depth = 1
               THEN /\ resolveStack' = <<>>
                    /\ resolved' = next.value
                    /\ decodeStatus' = "resolved"
               ELSE /\ resolveStack' =
                          [SubSeq(resolveStack, 1, depth - 1)
                              EXCEPT ![depth - 1].done = Append(@, next.value)]
                    /\ UNCHANGED <<resolved, decodeStatus>>
    /\ UNCHANGED <<objectsArray, archiveVars, extractorVars, importerVars, decoderVars>>

\* Object tables: each object is a string, the "$null" sentinel, a UID
\* reference, or an array or an object of up to two strings and UID
\* references; a UID names any index of the table or the one after its end.
PlistObjects ==
    LET values == {Str(<<"s">>)} \cup {UidRef(n) : n \in 0..MaxObjects}
    IN {Str(<<"s">>), Str(<<"$", "n", "u", "l", "l">>)} \cup {UidRef(n) : n \in 0..MaxObjects}
           \cup {Arr(<<x>>) : x \in values} \cup {Arr(<<x, y>>) : x, y \in values}
           \cup {Fields(<<<<"a">>>>, <<x>>) : x \in values}

ParseHighlightsBuffer == ParseBuffer(PlistObjects)

NextResolver ==
    \/ ParseHighlightsBuffer
    \/ DecodeHighlights
    \/ ResolveUIDs

SpecResolver == Init /\ [][NextResolver]_vars

\* C11 as stated: for any object table, UID resolution ends with a result or
\* an error of its own while the recursion stays within the depth a table of
\* that size calls for; it never recurses until the call stack is exhausted
C11_ResolutionBounded ==
    /\ decodeStatus # "caught"
    /\ Len(resolveStack) <= 2 * Len(objectsArray) + 2

\* ------------------------------------------------ MarginNoteDatabaseParser
MaxEntries == 2
MaxPayload == 1
MaxComment == 1

EndCentralDirSig == 101010256
CentralDirSig == 33639248
LocalHeaderSig == 67324752
EndRecordSize == 22
CentralHeaderSize == 46
LocalHeaderSize == 30
Stored == 0
Deflate == 8

Min(a, b) == IF a < b THEN a ELSE b

\* DataView.getUint16(offset, true) and getUint32(offset, true)
GetUint16(d, offset) == d[offset + 1] + 256 * d[offset + 2]
GetUint32(d, offset) ==
    d[offset + 1] + 256 * d[offset + 2] + 65536 * d[offset + 3] + 16777216 * d[offset + 4]

\* view.getUint32(offset, true) === signature, compared byte by byte: the
\* four bytes are the signature's, least significant first
HasSignature(d, offset, signature) ==
    /\ d[offset + 1] = signature % 256
    /\ d[offset + 2] = (signature \div 256) % 256
    /\ d[offset + 3] = (signature \div 65536) % 256
    /\ d[offset + 4] = (signature \div 16777216) % 256

\* a read of n bytes at offset lies within the view; one that does not
\* raises a RangeError
InView(d, offset, n) == offset >= 0 /\ offset + n <= Len(d)

\* ArrayBuffer.slice(begin, end): both ends are clamped to the buffer
Slice(d, begin, end) == SubSeq(d, Min(begin, Len(d)) + 1, Min(end, Len(d)))

\* new TextDecoder().decode of a one-byte buffer: the character of an ASCII
\* byte, U+FFFD for any other byte
DecodeChar(b) == IF b < 128 THEN CharOf(b) ELSE "U+FFFD"

\* the code units of a code point: itself, or a surrogate pair
CodeUnitsOf(cp) ==
    IF cp < 65536 THEN <<CharOf(cp)>>
    ELSE <<CharOf(55296 + ((cp - 65536) \div 1024)), CharOf(56320 + ((cp - 65536) % 1024))>>

\* the UTF-8 decoder at the lead byte b: the number of continuation bytes
\* the lead calls for (0 for a byte that starts no sequence), the range its
\* first continuation byte must lie in, and the bits it contributes
Utf8Lead(b) ==
    IF b >= 194 /\ b <= 223 THEN [needed |-> 1, lower |-> 128, upper |-> 191, bits |-> b % 32]
    ELSE IF b >= 224 /\ b <= 239
    THEN [needed |-> 2, lower |-> IF b = 224 THEN 160 ELSE 128,
          upper |-> IF b = 237 THEN 159 ELSE 191, bits |-> b % 16]
    ELSE IF b >= 240 /\ b <= 244
    THEN [needed |-> 3, lower |-> IF b = 240 THEN 144 ELSE 128,
          upper |-> IF b = 244 THEN 143 ELSE 191, bits |-> b % 8]
    ELSE [needed |-> 0, lower |-> 0, upper |-> 0, bits |-> 0]

\* the characters decoded from bytes[i] on: a run of ASCII bytes at once, a
\* well-formed sequence as its code point, and U+FFFD for every ill-formed
\* sequence, which ends before the byte that cannot continue it
RECURSIVE DecodeFrom(_, _)

\* the sequence at bytes[i] whose lead byte has seen that many of the
\* continuation bytes it needs
DecodeSeen(bytes, i, lead, seen) ==
    IF lead.needed > 0 /\ seen = lead.needed
    THEN CodeUnitsOf(IF seen = 1 THEN lead.bits * 64 + (bytes[i + 1] % 64)
                     ELSE IF seen = 2
                     THEN lead.bits * 4096 + (bytes[i + 1] % 64) * 64 + (bytes[i + 2] % 64)
                     ELSE lead.bits * 262144 + (bytes[i + 1] % 64) * 4096
                              + (bytes[i + 2] % 64) * 64 + (bytes[i + 3] % 64))
             \o DecodeFrom(bytes, i + 1 + seen)
    ELSE <<"U+FFFD">> \o DecodeFrom(bytes, i + 1 + seen)

\* the sequence at bytes[i] under its lead byte: the continuation bytes that
\* follow it, as many as it needs or up to the first that cannot continue it
DecodeSequence(bytes, i, lead) ==
    LET Continues(k) ==
            /\ i + k <= Len(bytes)
            /\ bytes[i + k] >= (IF k = 1 THEN lead.lower ELSE 128)
            /\ bytes[i + k] <= (IF k = 1 THEN lead.upper ELSE 191)
    IN DecodeSeen(bytes, i, lead,
                  CHOOSE n \in 0..lead.needed :
                      /\ \A k \in 1..n : Continues(k)
                      /\ n < lead.needed => ~Continues(n + 1))

DecodeFrom(bytes, i) ==
    IF i > Len(bytes) THEN <<>>
    ELSE IF bytes[i] < 128
    THEN LET j == CHOOSE e \in i..Len(bytes) :
                      /\ \A k \in i..e : bytes[k] < 128
                      /\ e < Len(bytes) => bytes[e + 1] >= 128
         IN [k \in 1..(j - i + 1) |-> DecodeChar(bytes[i + k - 1])] \o DecodeFrom(bytes, j + 1)
    ELSE DecodeSequence(bytes, i, Utf8Lead(bytes[i]))

\* new TextDecoder().decode(bytes): UTF-8, a leading byte order mark dropped
TextDecode(bytes) ==
    LET text == DecodeFrom(bytes, 1)
    IN IF StartsWith(bytes, <<239, 187, 191>>) THEN Tail(text) ELSE text

\* extractFileFromLocalHeader taking the payload to start right after the
\* fixed part of the local header
extractFileAfterFixedHeader(d, offset, compressedSize, method) ==
    IF ~InView(d, offset, 4) THEN [error |-> "RangeError", data |-> <<>>]
    ELSE IF ~HasSignature(d, offset, LocalHeaderSig)
    THEN [error |-> "Invalid local file header signature", data |-> <<>>]
    ELSE LET dataStart == offset + LocalHeaderSize
             compressedData == Slice(d, dataStart, dataStart + compressedSize)
         IN IF method = Deflate
            THEN [error |-> "DatabaseParseError", data |-> <<>>]
            ELSE [error |-> "", data |-> compressedData]

\* extractFileFromLocalHeader: the payload, or the error it throws
extractFileFromLocalHeader(d, offset, compressedSize, method) ==
    IF ~InView(d, offset, 4) THEN [error |-> "RangeError", data |-> <<>>]
    ELSE IF ~HasSignature(d, offset, LocalHeaderSig)
    THEN [error |-> "Invalid local file header signature", data |-> <<>>]
    ELSE IF ~InView(d, offset + 26, 4) THEN [error |-> "RangeError", data |-> <<>>]
    ELSE LET nameLength == GetUint16(d, offset + 26)
             extraLength == GetUint16(d, offset + 28)
             dataStart == offset + LocalHeaderSize + nameLength + extraLength
             compressedData == Slice(d, dataStart, dataStart + compressedSize)
         IN IF method = Stored THEN [error |-> "", data |-> compressedData]
            ELSE IF method = Deflate
            THEN [error |-> "DatabaseParseError", data |-> <<>>]
            ELSE [error |-> "", data |-> compressedData]

\* parseZipArchive, the search from the end of the file backwards: the
\* offsets examined go from byteLength - 22 down to the first one that holds
\* the signature, or down to 0
SearchOffsets(d) == 0..(Len(d) - EndRecordSize)
SignatureOffsets(d) == {i \in SearchOffsets(d) : HasSignature(d, i, EndCentralDirSig)}
MaxOf(S) == CHOOSE x \in S : \A y \in S : y <= x
LowestExamined(d) ==
    IF SearchOffsets(d) = {} THEN Len(d)
    ELSE IF SignatureOffsets(d) = {} THEN 0
    ELSE MaxOf(SignatureOffsets(d))

\* parseZipArchive, the walk over the central directory from currentOffset
RECURSIVE ParseCentralDirectory(_, _, _)
ParseCentralDirectory(d, offset, found) ==
    IF ~(offset < Len(d) - CentralHeaderSize)
    THEN [status |-> "returned", files |-> found, currentOffset |-> offset]
    ELSE IF ~HasSignature(d, offset, CentralDirSig)
    THEN [status |-> "returned", files |-> found, currentOffset |-> offset]
    ELSE LET method == GetUint16(d, offset + 10)
             compressedSize == GetUint32(d, offset + 20)
             nameLength == GetUint16(d, offset + 28)
             extraLength == GetUint16(d, offset + 30)
             commentLength == GetUint16(d, offset + 32)
             localHeaderOffset == GetUint32(d, offset + 42)
             nameStart == offset + CentralHeaderSize
         IN IF ~InView(d, nameStart, nameLength)
            THEN [status |-> "RangeError", files |-> <<>>, currentOffset |-> offset]
            ELSE LET name == TextDecode(SubSeq(d, nameStart + 1, nameStart + nameLength))
                     fileData == extractFileFromLocalHeader(d, localHeaderOffset,
                                                            compressedSize, method)
                     pushed == IF fileData.error = ""
                               THEN Append(found, [name |-> name, data |-> fileData.data])
                               ELSE found
                 IN ParseCentralDirectory(d,
                        offset + CentralHeaderSize + nameLength + extraLength + commentLength,
                        pushed)

\* 'marginNote.marginnotes'
FallbackName ==
    <<"m", "a", "r", "g", "i", "n", "N", "o", "t", "e", ".",
      "m", "a", "r", "g", "i", "n", "n", "o", "t", "e", "s">>

\* parseZipArchiveFallback
parseZipArchiveFallback(d) == <<[name |-> FallbackName, data |-> d]>>

\* parseZipArchive(data): what it returns or throws
ParseZipArchive(d) ==
    IF SignatureOffsets(d) = {}
    THEN [status |-> "returned", files |-> parseZipArchiveFallback(d), currentOffset |-> 0]
    ELSE ParseCentralDirectory(d, GetUint32(d, LowestExamined(d) + 16), <<>>)

parseZipArchive ==
    /\ zipStatus = "built"
    /\ LET result == ParseZipArchive(data)
       IN /\ searchOffset' = LowestExamined(data)
          /\ currentOffset' = result.currentOffset
          /\ files' = result.files
          /\ zipStatus' = result.status
    /\ UNCHANGED <<written, data, resolverVars, extractorVars, importerVars, decoderVars>>

\* ------------------------------------------------ inputs: archives
\* Archives are written entry by entry in the layout parseZipArchive reads:
\* the local records, the central directory, the end record.
U16(n) == <<n % 256, (n \div 256) % 256>>
U32(n) == <<n % 256, (n \div 256) % 256, (n \div 65536) % 256, (n \div 16777216) % 256>>

\* the UTF-8 bytes of a code point
Utf8Bytes(cp) ==
    IF cp < 128 THEN <<cp>>
    ELSE IF cp < 2048 THEN <<192 + (cp \div 64), 128 + (cp % 64)>>
    ELSE IF cp < 65536
    THEN <<224 + (cp \div 4096), 128 + ((cp \div 64) % 64), 128 + (cp % 64)>>
    ELSE <<240 + (cp \div 262144), 128 + ((cp \div 4096) % 64),
           128 + ((cp \div 64) % 64), 128 + (cp % 64)>>

\* the UTF-8 bytes of a sequence of UTF-16 code units: a run of ASCII at
\* once, a surrogate pair as one code point, a surrogate that stands alone
\* as U+FFFD
RECURSIVE EncodeUnits(_)
EncodeUnits(units) ==
    IF units = <<>> THEN <<>>
    ELSE IF units[1] < 128
    THEN LET j == CHOOSE e \in 1..Len(units) :
                      /\ \A k \in 1..e : units[k] < 128
                      /\ e < Len(units) => units[e + 1] >= 128
         IN SubSeq(units, 1, j) \o EncodeUnits(SubSeq(units, j + 1, Len(units)))
    ELSE IF /\ units[1] >= 55296 /\ units[1] <= 56319 /\ Len(units) > 1
            /\ units[2] >= 56320 /\ units[2] <= 57343
    THEN Utf8Bytes(65536 + (units[1] - 55296) * 1024 + (units[2] - 56320))
             \o EncodeUnits(SubSeq(units, 3, Len(units)))
    ELSE IF units[1] >= 55296 /\ units[1] <= 57343
    THEN <<239, 191, 189>> \o EncodeUnits(Tail(units))
    ELSE Utf8Bytes(units[1]) \o EncodeUnits(Tail(units))

\* new TextEncoder().encode(chars)
TextEncode(chars) == EncodeUnits([k \in 1..Len(chars) |-> CharCode(chars[k])])

\* raw deflate of a short payload: one final stored block
DeflateRaw(payload) ==
    <<1>> \o U16(Len(payload)) \o U16(65535 - Len(payload)) \o payload

\* the bytes an entry's payload is kept as under its compression method
CompressedBytes(entry) ==
    IF entry.method = Stored THEN entry.payload
    ELSE IF entry.method = Deflate THEN DeflateRaw(entry.payload)
    ELSE <<66, 90>> \o entry.payload

LocalRecord(entry) ==
    U32(entry.signature) \o U16(20) \o U16(0) \o U16(entry.method) \o Zeros(8)
        \o U32(Len(CompressedBytes(entry))) \o U32(Len(entry.payload))
        \o U16(Len(entry.name)) \o U16(0)
        \o TextEncode(entry.name) \o CompressedBytes(entry)

CentralRecord(entry, localHeaderOffset) ==
    U32(CentralDirSig) \o U16(20) \o U16(20) \o U16(0) \o U16(entry.method) \o Zeros(8)
        \o U32(entry.compressedSize) \o U32(Len(entry.payload))
        \o U16(entry.nameLength) \o U16(0) \o U16(0) \o Zeros(8)
        \o U32(localHeaderOffset) \o TextEncode(entry.name)

EndRecord(count, centralDirSize, centralDirOffset, comment) ==
    U32(EndCentralDirSig) \o Zeros(4) \o U16(count) \o U16(count)
        \o U32(centralDirSize) \o U32(centralDirOffset) \o U16(Len(comment)) \o comment

RECURSIVE LocalRecords(_)
LocalRecords(entries) ==
    IF entries = <<>> THEN <<>>
    ELSE LocalRecord(Head(entries)) \o LocalRecords(Tail(entries))

RECURSIVE CentralRecords(_, _)
CentralRecords(entries, localHeaderOffset) ==
    IF entries = <<>> THEN <<>>
    ELSE CentralRecord(Head(entries), localHeaderOffset)
             \o CentralRecords(Tail(entries),
                               localHeaderOffset + Len(LocalRecord(Head(entries))))

\* an archive without its end record
Unterminated(entries) == LocalRecords(entries) \o CentralRecords(entries, 0)

ZipArchive(entries, comment) ==
    Unterminated(entries)
        \o EndRecord(Len(entries), Len(CentralRecords(entries, 0)),
                     Len(LocalRecords(entries)), comment)

\* a payload of n bytes
Payload(n) == [i \in 1..n |-> 200 + i]

\* an entry as its writer means it
Entry(name, method, payload) ==
    [name |-> name, method |-> method, payload |-> payload,
     compressedSize |-> Len(CompressedBytes([method |-> method, payload |-> payload])),
     nameLength |-> Len(name), signature |-> LocalHeaderSig]

\* the entry with a central-directory size that reaches beyond any buffer here
Oversized(entry) == [entry EXCEPT !.compressedSize = 65535]

\* the entry with a local record that does not start with the signature
Unsigned(entry) == [entry EXCEPT !.signature = 0]

\* the entry with a central-directory name length that reaches beyond any
\* buffer here
Overlong(entry) == [entry EXCEPT !.nameLength = 65535]

Entries ==
    LET sound == {Entry(name, method, Payload(n)) :
                      name \in {<<"a">>, <<"b", "c">>}, method \in {Stored, Deflate, 12},
                      n \in 0..MaxPayload}
    IN sound \cup {Oversized(e) : e \in {x \in sound : x.method = Stored}}
             \cup {Unsigned(e) : e \in {x \in sound : x.method = Stored
                                                       /\ Len(x.payload) = MaxPayload}}
             \cup {Overlong(e) : e \in {x \in sound : x.method = Stored
                                                       /\ Len(x.payload) = MaxPayload}}

WriteEntry ==
    /\ zipStatus = "idle"
    /\ Len(written) < MaxEntries
    /\ \E e \in Entries : written' = Append(written, e)
    /\ UNCHANGED <<data, searchOffset, currentOffset, files, zipStatus,
                   resolverVars, extractorVars, importerVars, decoderVars>>

\* the archive is closed with an end record and a comment
WriteEndRecord ==
    /\ zipStatus = "idle"
    /\ \E n \in 0..MaxComment : data' = ZipArchive(written, [i \in 1..n |-> 32])
    /\ zipStatus' = "built"
    /\ UNCHANGED <<written, searchOffset, currentOffset, files, resolverVars, extractorVars, importerVars, decoderVars>>

\* the buffer ends before an end record was written
Truncate ==
    /\ zipStatus = "idle"
    /\ data' = Unterminated(written)
    /\ zipStatus' = "built"
    /\ UNCHANGED <<written, searchOffset, currentOffset, files, resolverVars, extractorVars, importerVars, decoderVars>>

NextArchive ==
    \/ WriteEntry
    \/ WriteEndRecord
    \/ Truncate
    \/ parseZipArchive

SpecArchive == Init /\ [][NextArchive]_vars

Terminated == \E n \in 0..MaxComment : data = ZipArchive(written, [i \in 1..n |-> 32])
Sound(entry) == entry \in {Entry(entry.name, entry.method, entry.payload)}
FileOf(entry) == [name |-> entry.name, data |-> entry.payload]

\* C12: an archive built from known entries, all of them stored, is read
\* back as exactly those entries in order, each name with the bytes that were
\* written for it, empty payloads and the last entry included
C12_StoredRoundTrip ==
    (/\ zipStatus # "idle" /\ zipStatus # "built"
     /\ Terminated
     /\ \A i \in 1..Len(written) : Sound(written[i]) /\ written[i].method = Stored)
        => /\ zipStatus = "returned"
           /\ files = [i \in 1..Len(written) |-> FileOf(written[i])]

C12_Witness ==
    /\ zipStatus = "returned"
    /\ Terminated
    /\ Len(written) = 2
    /\ \A i \in 1..2 : Sound(written[i]) /\ written[i].method = Stored
    /\ written[1].name # written[2].name
    /\ written[1].payload # <<>>
    /\ written[2].payload = <<>>
    /\ Len(data) > Len(ZipArchive(written, <<>>))
    /\ Len(files) = 2
    /\ files[1].data = written[1].payload

Parsed == zipStatus \in {"returned", "RangeError"}
DistinctNames == \A i, j \in 1..Len(written) : written[i].name = written[j].name => i = j
FilesNamed(name) == {j \in 1..Len(files) : files[j].name = name}

\* C13 as stated: every entry written with method 8 (raw deflate) is
\* extracted, under its name, as the bytes that were compressed
C13_DeflateEntriesExtracted ==
    (Parsed /\ Terminated /\ \A i \in 1..Len(written) : Sound(written[i]))
        => \A i \in 1..Len(written) :
               written[i].method = Deflate
                   => \E j \in 1..Len(files) : files[j] = FileOf(written[i])

\* C14 as stated: a buffer without an end-of-central-directory signature is
\* rejected: the read fails and returns no entries
C14_NoEndRecordRejected ==
    (Parsed /\ SignatureOffsets(data) = {}) => (zipStatus # "returned" /\ files = <<>>)

\* C15 as stated: a stored entry whose declared compressed size reaches
\* beyond the end of the buffer yields no payload; no payload is returned
\* that is shorter than the size declared for it
C15_NoShortPayload ==
    (Parsed /\ Terminated /\ DistinctNames)
        => \A i \in 1..Len(written) :
               (written[i].method = Stored /\ written[i].compressedSize > Len(data))
                   => FilesNamed(written[i].name) = {}

\* C16 as stated: an entry whose method is neither 0 nor 8 contributes no
\* payload, and the stored entries of the same archive are still extracted
C16_UnsupportedMethodSkipped ==
    (Parsed /\ Terminated /\ DistinctNames /\ \A i \in 1..Len(written) : Sound(written[i]))
        => \A i \in 1..Len(written) :
               /\ written[i].method \notin {Stored, Deflate}
                      => FilesNamed(written[i].name) = {}
               /\ written[i].method = Stored
                      => \E j \in 1..Len(files) : files[j] = FileOf(written[i])

\* C17 as stated: a local record that does not begin with the local file
\* header signature fails the whole read: nothing is returned, the other
\* entries included
C17_BadLocalSignatureFatal ==
    (Parsed /\ Terminated
            /\ \E i \in 1..Len(written) : written[i].signature # LocalHeaderSig)
        => (zipStatus # "returned" /\ files = <<>>)

\* the trailing window an end record with the longest comment fits in
SearchWindow == EndRecordSize + MaxComment

\* C18 as stated: the search for the end-of-central-directory signature
\* examines no offset before the trailing window of the buffer
C18_SearchWithinWindow ==
    Parsed => searchOffset >= Len(data) - SearchWindow

\* C29 as stated: a central-directory header whose name length reaches
\* past the end of the buffer does not abort the read: the read returns, with
\* the entries listed before that header
C29_CorruptLengthStaysWithEntry ==
    (Parsed /\ Terminated)
        => \A i \in 1..Len(written) :
               (/\ written[i].nameLength > Len(data)
                /\ \A j \in 1..(i - 1) : Sound(written[j]) /\ written[j].method = Stored)
                   => /\ zipStatus = "returned"
                      /\ \A j \in 1..(i - 1) :
                             \E k \in 1..Len(files) : files[k] = FileOf(written[j])

\* ------------------------------------------------ NSKeyedArchiverDecoder
\* stringToArrayBuffer
stringToArrayBuffer(str) == TextEncode(str)

\* prepareBinaryData: the buffer, the encoding of a string (without its first
\* two characters and its last when it starts as a Python bytes literal
\* does), or the error 'Invalid binary data format'
prepareBinaryData(blob) ==
    IF blob.type = "ArrayBuffer" THEN [error |-> "", data |-> blob.bytes]
    ELSE IF blob.type = "string"
    THEN IF StartsWith(blob.text, <<"b", "'">>) \/ StartsWith(blob.text, <<"b", "\"">>)
         THEN [error |-> "",
               data |-> stringToArrayBuffer(SubSeq(blob.text, 3, Len(blob.text) - 1))]
         ELSE [error |-> "", data |-> stringToArrayBuffer(blob.text)]
    ELSE [error |-> "Invalid binary data format", data |-> <<>>]

\* (value << 8) | byte on 32-bit integers: the low 24 bits of value move up,
\* bit 23 becomes the sign
ShiftInByte(value, byte) ==
    LET low24 == value % 16777216
    IN (IF low24 >= 8388608 THEN low24 - 16777216 ELSE low24) * 256 + byte

\* the loop of readBinaryPlistObject over the bytes of a number
RECURSIVE ShiftInBytes(_, _)
ShiftInBytes(value, bytes) ==
    IF bytes = <<>> THEN value ELSE ShiftInBytes(ShiftInByte(value, Head(bytes)), Tail(bytes))

\* readBinaryPlistObject: a short string, a number, or nothing
readBinaryPlistObject(view, offset) ==
    LET marker == view[offset + 1]
        tag == marker - (marker % 16)
        low == marker % 16
    IN IF offset >= Len(view)
       THEN [kind |-> "null", text |-> <<>>, nextOffset |-> offset + 1]
       ELSE IF (tag = 80 \/ tag = 96) /\ low < 15 /\ offset + 1 + low < Len(view)
       THEN [kind |-> "string", text |-> TextDecode(SubSeq(view, offset + 2, offset + 1 + low)),
             nextOffset |-> offset + 1 + low]
       ELSE IF tag = 16 /\ offset + 1 + 2 ^ low < Len(view)
       THEN [kind |-> "number",
             text |-> IntegerText(ShiftInBytes(0, SubSeq(view, offset + 2, offset + 1 + 2 ^ low))),
             nextOffset |-> offset + 1 + 2 ^ low]
       ELSE [kind |-> "null", text |-> <<>>, nextOffset |-> offset + 1]

\* parseBinaryPlist: the objects found from offset on, the trailer left out
RECURSIVE ObjectsFrom(_, _)
ObjectsFrom(view, offset) ==
    IF ~(offset < Len(view) - 32) THEN <<>>
    ELSE LET obj == readBinaryPlistObject(view, offset)
         IN (IF obj.kind = "null" THEN <<>>
             ELSE IF obj.kind = "string" THEN <<Str(obj.text)>>
             ELSE <<Num(obj.text)>>)
                \o ObjectsFrom(view, obj.nextOffset)

\* the characters the dot of a regular expression does not match
LineTerminators == {"\n", "\r", "U+2028", "U+2029"}

\* the captures of /<open>(.*?)<\/close>/g in text from i on, for any of
\* the opening and closing tags given: the dot matches no line break
RECURSIVE XmlCaptures(_, _, _, _)

\* tagText is in text at index k
TagAt(text, k, tagText) ==
    k + Len(tagText) - 1 <= Len(text) /\ SubSeq(text, k, k + Len(tagText) - 1) = tagText

\* where a closing tag may start for the opening tag of that length at k:
\* the lazy .*? crosses no line terminator
CaptureEnds(text, closes, k, length) ==
    {j \in (k + length)..Len(text) :
        /\ \E close \in closes : TagAt(text, j, close)
        /\ \A m \in (k + length)..(j - 1) : text[m] \notin LineTerminators}

\* the match whose capture runs from first to j - 1, and the matches after
\* its closing tag
CaptureTo(text, opens, closes, first, j) ==
    <<SubSeq(text, first, j - 1)>>
        \o XmlCaptures(text, opens, closes,
                       j + Len(CHOOSE c \in closes : TagAt(text, j, c)))

\* the match of the opening tag of that length at k: the capture ends at
\* the first closing tag
CaptureFrom(text, opens, closes, k, length) ==
    CaptureTo(text, opens, closes, k + length,
              CHOOSE x \in CaptureEnds(text, closes, k, length) :
                  \A y \in CaptureEnds(text, closes, k, length) : x <= y)

\* the matches given the indexes where a match can start: the leftmost is
\* taken
CapturesAmong(text, opens, closes, starts) ==
    IF starts = {} THEN <<>>
    ELSE LET k == CHOOSE x \in starts : \A y \in starts : x <= y
         IN CaptureFrom(text, opens, closes, k,
                        Len(CHOOSE o \in opens : TagAt(text, k, o)))

XmlCaptures(text, opens, closes, i) ==
    CapturesAmong(text, opens, closes,
                  {k \in i..Len(text) :
                      \E open \in opens :
                          TagAt(text, k, open)
                              /\ CaptureEnds(text, closes, k, Len(open)) # {}})

\* parseXmlPlist: the strings, then the numbers
parseXmlPlist(text) ==
    LET tag(name) == <<"<">> \o name \o <<">">>
        endTag(name) == <<"<", "/">> \o name \o <<">">>
        string == <<"s", "t", "r", "i", "n", "g">>
        integer == <<"i", "n", "t", "e", "g", "e", "r">>
        real == <<"r", "e", "a", "l">>
        strings == XmlCaptures(text, {tag(string)}, {endTag(string)}, 1)
        numbers == XmlCaptures(text, {tag(integer), tag(real)},
                               {endTag(integer), endTag(real)}, 1)
    IN [i \in 1..Len(strings) |-> Str(strings[i])]
           \o [i \in 1..Len(numbers) |-> Num(parseFloat(numbers[i]).text)]

BplistMagic == <<98, 112, 108, 105, 115, 116>>

\* parsePlist: the $objects of a binary plist; a buffer that does not start
\* with 'bplist' is read as XML
parsePlist(bytes) ==
    IF StartsWith(bytes, BplistMagic) THEN ObjectsFrom(bytes, 8)
    ELSE parseXmlPlist(TextDecode(bytes))

NewZNotes(type) ==
    [type |-> type, highlightText |-> <<>>, textSelections |-> <<>>, coordinates |-> <<>>,
     clips |-> <<>>, coordsHash |-> <<>>, links |-> <<>>, hashtags |-> <<>>,
     formattedText |-> <<>>]

\* a || b
Or(a, b) == IF ToBoolean(a) THEN a ELSE b

\* typeof v === 'object' && v !== null
IsObject(v) == v.kind \in {"object", "array"}

RectName == <<"r", "e", "c", "t">>
PageNoName == <<"p", "a", "g", "e", "N", "o">>
PageNoSnakeName == <<"p", "a", "g", "e", "_", "n", "o">>
TextName == <<"t", "e", "x", "t">>
HighlightTextName == <<"h", "i", "g", "h", "l", "i", "g", "h", "t", "T", "e", "x", "t">>
HighlightTextSnakeName == <<"h", "i", "g", "h", "l", "i", "g", "h", "t", "_", "t", "e", "x", "t">>
CoordsHashName == <<"c", "o", "o", "r", "d", "s", "H", "a", "s", "h">>
CoordsHashSnakeName == <<"c", "o", "o", "r", "d", "s", "_", "h", "a", "s", "h">>
TextSelLstName == <<"t", "e", "x", "t", "S", "e", "l", "L", "s", "t">>
TextSelectionsName == <<"t", "e", "x", "t", "S", "e", "l", "e", "c", "t", "i", "o", "n", "s">>

\* { x, y, width, height }
RectData(x, y, width, height) ==
    Fields(<<<<"x">>, <<"y">>, <<"w", "i", "d", "t", "h">>, <<"h", "e", "i", "g", "h", "t">>>>,
           <<x, y, width, height>>)

ZeroRect == RectData(Integer(0), Integer(0), Integer(0), Integer(0))

\* the rectangle of four numbers
RectFrom(numbers) == RectData(numbers[1], numbers[2], numbers[3], numbers[4])

\* text.includes(part)
Includes(text, part) == \E k \in 1..(Len(text) + 1) : TagAt(text, k, part)

\* text.split(separator), the separator not empty: the parts between its
\* occurrences, taken from the left
RECURSIVE SplitOn(_, _)
SplitOn(text, separator) ==
    LET starts == {k \in 1..Len(text) : TagAt(text, k, separator)}
        first == CHOOSE k \in starts : \A j \in starts : k <= j
    IN IF starts = {} THEN <<text>>
       ELSE <<SubSeq(text, 1, first - 1)>>
                \o SplitOn(SubSeq(text, first + Len(separator), Len(text)), separator)

\* s => parseFloat(s.trim())
TrimmedFloat(s) == Num(parseFloat(Trim(s)).text)

\* the rectangle of four texts, each through parseFloat; the zero
\* rectangle when there are none
RectOf(parts) ==
    IF parts = <<>> THEN ZeroRect
    ELSE RectFrom([i \in 1..4 |-> TrimmedFloat(parts[i])])

\* the four parts of '{{x, y}, {width, height}}' split at '}, {' and then at
\* the commas, none when either side has fewer than two parts
NestedParts(origin, size) ==
    IF Len(origin) >= 2 /\ Len(size) >= 2 THEN <<origin[1], origin[2], size[1], size[2]>>
    ELSE <<>>

\* the first four parts between commas, none when there are fewer
FlatParts(parts) == IF Len(parts) >= 4 THEN SubSeq(parts, 1, 4) ELSE <<>>

\* the parts that name the rectangle in a text without braces
RectParts(cleanStr, between) ==
    IF Includes(cleanStr, between)
    THEN NestedParts(SplitOn(SplitOn(cleanStr, between)[1], <<",">>),
                     SplitOn(SplitOn(cleanStr, between)[2], <<",">>))
    ELSE FlatParts(SplitOn(cleanStr, <<",">>))

\* parseRectString: the braces are removed first, so the text never holds
\* '}, {' and the four numbers are the first four parts between commas;
\* fewer parts give the zero rectangle
parseRectString(rectStr) ==
    RectOf(RectParts(SelectSeq(rectStr, LAMBDA c : c \notin {"{", "}"}),
                     <<"}", ",", " ", "{">>))

\* the rectangle that the text of a rect names, or what String has thrown
RectNamed(rectStr) ==
    IF Thrown(rectStr) THEN rectStr ELSE parseRectString(rectStr.text)

\* extractRectData for the rect of an object
RectDataOf(rect) ==
    IF ~ToBoolean(rect) THEN Null ELSE RectNamed(ToStringOf(rect))

\* extractRectData: null without a rect, the rectangle that String(obj.rect)
\* names, or what String throws
extractRectData(obj) == RectDataOf(Lookup(obj, RectName))

\* what an extraction returns, or the kind of what it throws
ExtractionOf(value) == [error |-> "", value |-> value]

ExtractionThrown(thrown) == [error |-> thrown.kind, value |-> <<>>]

\* the selection of an object and its rectangle
TextSelection(sel, rect) ==
    [rect |-> Or(rect, ZeroRect),
     pageNo |-> Or(Or(Lookup(sel, PageNoName), Lookup(sel, PageNoSnakeName)), Integer(1)),
     text |-> OrEmptyString(Lookup(sel, TextName))]

\* the loop of extractTextSelections
RECURSIVE TextSelectionsFrom(_, _)

\* the turn of the loop for an object, given what extractRectData returns
\* or throws for it
TextSelectionsWith(result, selections, rect) ==
    IF Thrown(rect) THEN ExtractionThrown(rect)
    ELSE TextSelectionsFrom(Append(result, TextSelection(Head(selections), rect)),
                            Tail(selections))

TextSelectionsFrom(result, selections) ==
    IF selections = <<>> THEN ExtractionOf(result)
    ELSE IF ~IsObject(Head(selections)) THEN TextSelectionsFrom(result, Tail(selections))
    ELSE TextSelectionsWith(result, selections, extractRectData(Head(selections)))

\* extractTextSelections: one selection for every object of an array
extractTextSelections(selections) ==
    IF selections.kind = "array" THEN TextSelectionsFrom(<<>>, selections.items)
    ELSE ExtractionOf(<<>>)

\* String(v) for each of the values that is truthy
StringsOf(values) ==
    [i \in 1..Len(values) |->
        IF ToBoolean(values[i]) THEN ToStringOf(values[i]) ELSE Str(<<>>)]

\* the object branch given the texts of the highlight and of the hash, the
\* text selections and the coordinate, or what one of them has thrown, the
\* first in the order of the code
ZNotesWithParts(result, highlight, hash, selections, texts, textSelections, coord) ==
    IF Thrown(texts[1]) THEN ExtractionThrown(texts[1])
    ELSE IF Thrown(texts[2]) THEN ExtractionThrown(texts[2])
    ELSE IF textSelections.error # "" THEN textSelections
    ELSE IF Thrown(coord) THEN ExtractionThrown(coord)
    ELSE ExtractionOf(
             [result EXCEPT
                 !.highlightText = IF ToBoolean(highlight) THEN texts[1].text ELSE @,
                 !.coordsHash = IF ToBoolean(hash) THEN texts[2].text ELSE @,
                 !.textSelections = IF ToBoolean(selections) THEN textSelections.value ELSE @,
                 !.coordinates = IF ToBoolean(coord) THEN Append(@, coord) ELSE @])

\* the object branch given obj.highlight_text || obj.highlightText,
\* obj.coords_hash || obj.coordsHash and obj.textSelLst || obj.textSelections
ZNotesWithValues(result, obj, highlight, hash, selections) ==
    ZNotesWithParts(result, highlight, hash, selections, StringsOf(<<highlight, hash>>),
                    IF ToBoolean(selections) THEN extractTextSelections(selections)
                    ELSE ExtractionOf(<<>>),
                    extractRectData(obj))

\* extractZNotesStructure, what an object among the objects gives: the
\* highlight text, the coordinates hash, the text selections and a
\* coordinate, each when the object has it
ZNotesWith(result, obj) ==
    ZNotesWithValues(result, obj,
                     Or(Lookup(obj, HighlightTextSnakeName), Lookup(obj, HighlightTextName)),
                     Or(Lookup(obj, CoordsHashSnakeName), Lookup(obj, CoordsHashName)),
                     Or(Lookup(obj, TextSelLstName), Lookup(obj, TextSelectionsName)))

\* extractZNotesStructure, what a string among the objects gives: a
\* hashtag, a link id or a formatted text
ZNotesWithText(result, text) ==
    IF text # <<>> /\ IsHash(text[1])
    THEN [result EXCEPT !.hashtags = Append(@, text)]
    ELSE IF StartsWith(text, LinkPrefix)
    THEN [result EXCEPT !.links = Append(@, SubSeq(text, Len(LinkPrefix) + 1, Len(text)))]
    ELSE IF Trim(text) # <<>> /\ ~StartsWith(text, <<"N", "S">>) /\ Len(text) > 1
    THEN [result EXCEPT !.formattedText = Append(@, text)]
    ELSE result

\* the loop of extractZNotesStructure over $objects: objects and arrays,
\* strings, and the values of any other type, which add nothing
RECURSIVE ZNotesFrom(_, _)

\* the loop after the turn for an object
ZNotesAfter(with, objects) ==
    IF with.error # "" THEN with ELSE ZNotesFrom(with.value, Tail(objects))

ZNotesFrom(result, objects) ==
    IF objects = <<>> THEN ExtractionOf(result)
    ELSE IF IsObject(Head(objects))
    THEN ZNotesAfter(ZNotesWith(result, Head(objects)), objects)
    ELSE IF Head(objects).kind = "string"
    THEN ZNotesFrom(ZNotesWithText(result, Head(objects).text), Tail(objects))
    ELSE ZNotesFrom(result, Tail(objects))

extractZNotesStructure(objects) == ZNotesFrom(NewZNotes("znotes"), objects)

createZNotesEmpty == NewZNotes("znotes")

createZNotesFallback == NewZNotes("znotes_fallback")

\* !binaryData: no value, or the empty string
Falsy(blob) == blob.type = "none" \/ (blob.type = "string" /\ blob.text = <<>>)

\* the highlight of an object with a rect or a pageNo; String(obj.rect) is
\* taken a second time for the coordinates and names the same rectangle
HighlightFrom(obj, rect) ==
    [type |-> "highlight",
     pageNo |-> Or(Or(Lookup(obj, PageNoName), Lookup(obj, PageNoSnakeName)), Integer(1)),
     rect |-> Or(rect, ZeroRect),
     coordinates |-> IF ToBoolean(rect) THEN rect ELSE Fields(<<>>, <<>>)]

\* the loop of extractZHighlightsStructure over $objects
RECURSIVE ZHighlightsFrom(_, _)

\* the turn of the loop for an object with a rect or a pageNo, given what
\* extractRectData returns or throws for it
ZHighlightsWith(highlights, objects, rect) ==
    IF Thrown(rect) THEN ExtractionThrown(rect)
    ELSE ZHighlightsFrom(Append(highlights, HighlightFrom(Head(objects), rect)),
                         Tail(objects))

ZHighlightsFrom(highlights, objects) ==
    IF objects = <<>> THEN ExtractionOf(highlights)
    ELSE IF ~IsObject(Head(objects))
            \/ ~ToBoolean(Or(Lookup(Head(objects), RectName),
                             Lookup(Head(objects), PageNoName)))
    THEN ZHighlightsFrom(highlights, Tail(objects))
    ELSE ZHighlightsWith(highlights, objects, extractRectData(Head(objects)))

\* extractZHighlightsStructure: one highlight for every object with a rect
\* or a pageNo
extractZHighlightsStructure(objects) == ZHighlightsFrom(<<>>, objects)

createZHighlightsFallback ==
    <<[type |-> "highlight_fallback", pageNo |-> Integer(1), rect |-> ZeroRect,
       coordinates |-> Fields(<<>>, <<>>)]>>

\* what a decoder returns given the error of prepareBinaryData and what the
\* extraction returned: the value, the NSKeyedArchiverError thrown in strict
\* mode, or the fallback.  An error of the preparation or of the extraction
\* is caught; an extraction that never ends leaves the call without a result.
Decoded(prepared, extracted, strict, fallback, strictValue) ==
    IF prepared.error = "" /\ extracted.error \in {"", "never"}
    THEN [error |-> extracted.error, value |-> extracted.value]
    ELSE IF strict THEN [error |-> "NSKeyedArchiverError", value |-> strictValue]
    ELSE [error |-> "", value |-> fallback]

\* the try block of decodeZNotes and what follows it
ZNotesOf(prepared, strict) ==
    Decoded(prepared, extractZNotesStructure(parsePlist(prepared.data)), strict,
            createZNotesFallback, createZNotesFallback)

decodeZNotes(blob, strict) ==
    IF Falsy(blob) THEN [error |-> "", value |-> createZNotesEmpty]
    ELSE ZNotesOf(prepareBinaryData(blob), strict)

\* the try block of decodeZHighlights and what follows it
ZHighlightsOf(prepared, strict) ==
    Decoded(prepared, extractZHighlightsStructure(parsePlist(prepared.data)), strict,
            createZHighlightsFallback, <<>>)

decodeZHighlights(blob, strict) ==
    IF Falsy(blob) THEN [error |-> "", value |-> <<>>]
    ELSE ZHighlightsOf(prepareBinaryData(blob), strict)

applyDecodedNotesData(note, decoded) ==
    [note EXCEPT !.excerptText = IF decoded.highlightText # <<>> /\ @ = <<>>
                                 THEN decoded.highlightText ELSE @,
                 !.internalLinks = @ \o decoded.links,
                 !.hashtags = @ \o decoded.hashtags,
                 !.formattedText = @ \o decoded.formattedText]

\* applyDecodedHighlightsData: the first highlight, whose rect is an
\* object, gives a note without an excerptPic one whose hasContent() is true
applyDecodedHighlightsData(note, decoded) ==
    IF decoded # <<>> /\ note.excerptPic = NoPic /\ ToBoolean(decoded[1].rect)
    THEN [note EXCEPT !.excerptPic = RegionPic]
    ELSE note

\* MNBookNoteImpl.fromDatabaseRow, for a row with an id, a ZHIGHLIGHT_TEXT, a
\* ZEXCERPT_PIC and the two binary columns
NoteFromRow(row) ==
    [MappedNote(row.noteId) EXCEPT
        !.excerptText = row.ZHIGHLIGHT_TEXT,
        !.excerptPic = IF row.ZEXCERPT_PIC THEN EmptyPic ELSE NoPic]

\* processNotes: the note after applyDecodedNotesData, when the row has a
\* ZNOTES column
WithNotes(row, note, decoded) ==
    IF Falsy(row.ZNOTES) THEN note ELSE applyDecodedNotesData(note, decoded.value)

\* processNotes: the note after applyDecodedHighlightsData, when the row has
\* a ZHIGHLIGHTS column
WithHighlights(row, note, decoded) ==
    IF Falsy(row.ZHIGHLIGHTS) THEN note ELSE applyDecodedHighlightsData(note, decoded.value)

\* the try block of processNotes for a row, given the note of the row and
\* what the two decoders returned: the note, or the error that sends the row
\* to the catch block
MappedRow(row, note, decodedNotes, decodedHighlights) ==
    IF ~Falsy(row.ZNOTES) /\ decodedNotes.error # ""
    THEN [error |-> decodedNotes.error, note |-> note]
    ELSE IF ~Falsy(row.ZHIGHLIGHTS) /\ decodedHighlights.error # ""
    THEN [error |-> decodedHighlights.error, note |-> note]
    ELSE [error |-> "",
          note |-> ExtractTextFeatures(
                       WithHighlights(row, WithNotes(row, note, decodedNotes),
                                      decodedHighlights))]

\* processNotes, the body of the try block up to the text features: the note,
\* or the error that sends the row to the catch block
MapRow(row, strict) ==
    MappedRow(row, NoteFromRow(row), decodeZNotes(row.ZNOTES, strict),
           decodeZHighlights(row.ZHIGHLIGHTS, strict))

\* new ContentExtractor(strictDecoding)
InitDecoding ==
    /\ ResolverIdle
    /\ ArchiveIdle
    /\ strictMode \in BOOLEAN
    /\ ExtractorIdle
    /\ ImporterIdle
    /\ DecoderIdle

\* processNotes, the end of a turn of the loop: the mapped row is stored, or
\* its error is logged; a decoding that never ends stops the loop
StoreMapped(row, mapped) ==
    /\ mapped.error # "never"
    /\ booknotesData' = Append(booknotesData, row)
    /\ notes' = IF mapped.error = "" THEN NotesSet(notes, mapped.note) ELSE notes

\* processNotes, one turn of the loop over the rows: the row is mapped and
\* stored, or its error is logged and the loop goes on
processRow(rows) ==
    /\ pc = "processNotes"
    /\ \E row \in rows : StoreMapped(row, MapRow(row, strictMode))
    /\ UNCHANGED <<topicClassification, topics, mediaCollection, unionFind, contentGroups, deduplicatedGroups,
                   deduplicationStats, pc>>
    /\ UNCHANGED <<resolverVars, archiveVars, strictMode, importerVars, decoderVars>>

\* ------------------------------------------------ inputs: binary columns
MaxBlobNotes == 2

\* a binary plist of short ASCII strings: the header, the strings, a trailer
BinaryPlist(strings) ==
    LET RECURSIVE Objects(_)
        Objects(ss) == IF ss = <<>> THEN <<>>
                       ELSE <<80 + Len(Head(ss))>> \o TextEncode(Head(ss)) \o Objects(Tail(ss))
    IN BplistMagic \o <<48, 48>> \o Objects(strings) \o Zeros(32)

\* Rows whose binary columns vary: each column is absent, an empty
\* ArrayBuffer, an ArrayBuffer with a binary plist of one hashtag, the
\* same bytes as a Uint8Array, or a string that holds an XML plist of one
\* hashtag; the row has an excerpt text or none and a ZEXCERPT_PIC or none.
BlobRows ==
    LET plist == BinaryPlist(<<<<"#", "t">>>>)
        xml == <<"<", "s", "t", "r", "i", "n", "g", ">", "#", "u",
                 "<", "/", "s", "t", "r", "i", "n", "g", ">">>
        blobs == {NoBlob, Blob("ArrayBuffer", <<>>), Blob("ArrayBuffer", plist),
                  Blob("Uint8Array", plist), StringBlob(xml)}
    IN IF Len(booknotesData) >= MaxBlobNotes THEN {}
       ELSE {[noteId |-> NoteId(Len(booknotesData) + 1), ZHIGHLIGHT_TEXT |-> text,
              ZEXCERPT_PIC |-> pic, ZNOTES |-> znotes, ZHIGHLIGHTS |-> zhighlights]
                : text \in {<<>>, <<"a">>}, pic \in BOOLEAN,
                  znotes \in blobs, zhighlights \in blobs}

ProcessRow == processRow(BlobRows)

NextDecoding ==
    \/ ProcessTopics
    \/ ProcessRow
    \/ GroupRelatedContent
    \/ IdentifyMasterNotes
    \/ ProcessContentFeatures
    \/ DeduplicateContent

SpecDecoding == InitDecoding /\ [][NextDecoding]_vars

\* the column holds a value the decoder fails on
Undecodable(blob) == blob # NoBlob /\ prepareBinaryData(blob).error # ""

WithoutUndecodable(row) ==
    [row EXCEPT !.ZNOTES = IF Undecodable(@) THEN NoBlob ELSE @,
                !.ZHIGHLIGHTS = IF Undecodable(@) THEN NoBlob ELSE @]

HasUndecodable(row) == Undecodable(row.ZNOTES) \/ Undecodable(row.ZHIGHLIGHTS)

\* C19 as stated: without strict mode a column that fails to decode adds
\* nothing: the row is mapped to the record it would be mapped to without
\* that column
C19_FailedBlobAddsNothing ==
    (~strictMode /\ pc = "processNotes")
        => \A i \in 1..Len(booknotesData) :
               /\ NotesHas(notes, booknotesData[i].noteId)
               /\ NotesGet(notes, booknotesData[i].noteId)
                      = MapRow(WithoutUndecodable(booknotesData[i]), FALSE).note

\* C20 as stated: in strict mode a row with a column that fails to decode
\* fails the import: the import does not run to completion without that row
C20_StrictFailureFailsImport ==
    (strictMode /\ \E i \in 1..Len(booknotesData) : HasUndecodable(booknotesData[i]))
        => pc # "done"

\* ------------------------------------------------ extraction statistics
\* MNBookNoteImpl.hasContent
hasContent(note) ==
    \/ Trim(note.excerptText) # <<>>
    \/ Trim(note.notesText) # <<>>
    \/ Trim(note.noteTitle) # <<>>
    \/ note.formattedText # <<>>
    \/ note.hashtags # <<>>
    \/ note.mediaAttachments # <<>>

\* MediaCollectionImpl.getStatistics
getStatistics(items) ==
    LET images == Cardinality({i \in 1..Len(items) : items[i].mediaType = PNG_IMAGE})
        inkDrawings == Cardinality({i \in 1..Len(items) : items[i].mediaType = APPLE_INK})
    IN [totalItems |-> Len(items), images |-> images, inkDrawings |-> inkDrawings,
        other |-> Len(items) - images - inkDrawings]

\* TopicClassificationImpl.toDict
toDict(tc) ==
    [projects |-> Cardinality(tc.projectTopics), books |-> Cardinality(tc.bookTopics),
     reviewTopics |-> Cardinality(tc.reviewTopics), general |-> Cardinality(tc.generalTopics)]

RECURSIVE Gcd(_, _)
Gcd(a, b) == IF b = 0 THEN a ELSE Gcd(b, a % b)

\* the quotient a / b of two counts as a fraction in lowest terms
Quotient(a, b) ==
    [numerator |-> a \div Gcd(a, b), denominator |-> b \div Gcd(a, b)]

\* getExtractionStatistics; averageGroupSize is the fraction the division
\* yields, 0 / 1 when there is no group
getExtractionStatistics(noteMap, topicMap, items, tc, groups) ==
    LET groupSizes == [i \in 1..Len(groups) |-> Len(groups[i].notes)]
        RECURSIVE Sum(_)
        Sum(seq) == IF seq = <<>> THEN 0 ELSE Head(seq) + Sum(Tail(seq))
        Count(P(_)) == Cardinality({i \in 1..Len(noteMap) : P(noteMap[i])})
    IN [totalNotes |-> Len(noteMap),
        totalTopics |-> Len(topicMap),
        totalGroups |-> Len(groups),
        mediaStats |-> getStatistics(items),
        topicClassification |-> toDict(tc),
        groupStatistics |->
            [singleNoteGroups |-> Cardinality({i \in 1..Len(groups) : groupSizes[i] = 1}),
             multiNoteGroups |-> Cardinality({i \in 1..Len(groups) : groupSizes[i] > 1}),
             largestGroupSize |->
                 IF groups = <<>> THEN 0
                 ELSE CHOOSE m \in Range(groupSizes) : \A n \in Range(groupSizes) : n <= m,
             averageGroupSize |->
                 IF groups = <<>> THEN Quotient(0, 1) ELSE Quotient(Sum(groupSizes), Len(groups))],
        contentFeatures |->
            [totalHashtags |-> Sum([i \in 1..Len(noteMap) |-> Len(noteMap[i].hashtags)]),
             totalInternalLinks |->
                 Sum([i \in 1..Len(noteMap) |-> Len(noteMap[i].internalLinks)]),
             notesWithMedia |-> Count(LAMBDA n : n.mediaAttachments # <<>>),
             notesWithContent |-> Count(LAMBDA n : hasContent(n))]]

\* extractAllContent has returned
ExtractionReturned == pc = "deduplicateContent"

\* the rows of the batch whose mapping threw
SkippedRows == {i \in 1..Len(booknotesData) : MapRow(booknotesData[i], strictMode).error # ""}

\* the counts the statistics hold
StatisticsCounts(statistics) ==
    LET Values(r) == {r[f] : f \in DOMAIN r}
    IN {statistics.totalNotes, statistics.totalTopics, statistics.totalGroups}
           \cup Values(statistics.mediaStats)
           \cup Values(statistics.topicClassification)
           \cup Values([f \in DOMAIN statistics.groupStatistics \ {"averageGroupSize"}
                           |-> statistics.groupStatistics[f]])
           \cup Values(statistics.contentFeatures)

\* C21 as stated: a row whose mapping fails does not stop the batch, every
\* other row is mapped, and the statistics the extraction returns hold a
\* count of the rows that were skipped
C21_SkippedRowsCounted ==
    ExtractionReturned =>
        /\ \A i \in 1..Len(booknotesData) :
               i \notin SkippedRows => NotesHas(notes, booknotesData[i].noteId)
        /\ SkippedRows # {} =>
               LET statistics == getExtractionStatistics(notes, topics, mediaCollection,
                                                         topicClassification, contentGroups)
               IN \/ Cardinality(SkippedRows) \in StatisticsCounts(statistics)
                  \/ statistics.groupStatistics.averageGroupSize
                         = Quotient(Cardinality(SkippedRows), 1)

\* ------------------------------------------------ simplifyNSArchive
MaxDepth == 2

ClassKey == <<"$", "c", "l", "a", "s", "s">>
ClassNameKey == <<"$", "c", "l", "a", "s", "s", "n", "a", "m", "e">>
ObjectsKey == <<"N", "S", ".", "o", "b", "j", "e", "c", "t", "s">>
KeysKey == <<"N", "S", ".", "k", "e", "y", "s">>

\* obj['$class']?.['$classname']
ClassNameOf(obj) ==
    IF Nullish(Lookup(obj, ClassKey)) THEN Undefined
    ELSE Lookup(Lookup(obj, ClassKey), ClassNameKey)

\* key.startsWith('$')
StartsWithDollar(key) == key # <<>> /\ key[1] = "$"

\* a test that lets null through
UndefinedOnly(x) == x.kind = "undefined"

\* x === null || x === undefined
Missing(x) == x.kind = "null" \/ x.kind = "undefined"

\* the names of natural numbers below the bound among those of v, in
\* ascending order
NamesBelow(v, bound) == Ascending({name \in IntegerNames(v) : Less(NameNumber(name), bound)})

\* how often the loop for (let i = 0; i < length; i++) tests true, as
\* digits; i stays 2 ^ 53 when it has come there, so above that the loop
\* has no end
TurnsOf(literal) ==
    IF literal.class = "NaN" \/ literal.negative
           \/ (literal.class = "finite" /\ StripZeros(literal.digits) = <<>>)
    THEN [endless |-> FALSE, turns |-> <<>>]
    ELSE IF literal.class = "infinite" THEN [endless |-> TRUE, turns |-> Succ(PowerOfTwo(53))]
    ELSE LET cut == ShiftDigits(StripZeros(literal.digits), literal.exponent)
             turns == StripZeros(IF cut.rest = "zero" THEN cut.whole ELSE Succ(cut.whole))
         IN IF Less(PowerOfTwo(53), turns)
            THEN [endless |-> TRUE, turns |-> Succ(PowerOfTwo(53))]
            ELSE [endless |-> FALSE, turns |-> turns]

RECURSIVE simplifyNSArchive(_)
RECURSIVE KeptFrom(_, _, _)
RECURSIVE PairsFrom(_, _, _, _, _)
RECURSIVE Walk(_, _, _)

\* .filter: the item is kept unless it is null or undefined
Kept(source, names, done, item) ==
    IF Thrown(item) THEN item
    ELSE KeptFrom(source, names, IF Missing(item) THEN done ELSE Append(done, item))

\* arr.map(...).filter(...) from the elements of those names on
KeptFrom(source, names, done) ==
    IF names = <<>> THEN Arr(done)
    ELSE Kept(source, Tail(names), done, simplifyNSArchive(Lookup(source, Head(names))))

\* Array.prototype.map on a value whose length is that number: an array for
\* the results is made, which no length of 2 ^ 32 and more allows
MapFilter(source, length) ==
    IF Thrown(length) THEN length
    ELSE IF source.kind # "array" /\ Less(ArrayLengthLimit, LengthOf(SignedFrom(length.text, 1)))
    THEN RangeError
    ELSE KeptFrom(source, NamesBelow(source, LengthOf(SignedFrom(length.text, 1))), <<>>)

\* Case 3: arr.map(...).filter(...), a TypeError when arr has no map that
\* can be called
SimplifyArray(arr) ==
    IF ~ArrayMethod(arr, <<"m", "a", "p">>) THEN TypeError
    ELSE MapFilter(arr, ToNumber(Lookup(arr, LengthName)))

\* result[key] = val
StoredPair(keys, values, names, endless, result, name, val) ==
    IF Thrown(name) THEN name
    ELSE PairsFrom(keys, values, names, endless, Put(result, name.text, val))

\* the pair is stored when neither the key nor the value is null or
\* undefined
Pair(keys, values, names, endless, result, key, val) ==
    IF Thrown(val) THEN val
    ELSE IF Missing(key) \/ Missing(val) THEN PairsFrom(keys, values, names, endless, result)
    ELSE StoredPair(keys, values, names, endless, result, ToPropertyKey(key), val)

\* the key is simplified, then the value
KeyOf(keys, values, names, endless, result, i, key) ==
    IF Thrown(key) THEN key
    ELSE Pair(keys, values, names, endless, result, key, simplifyNSArchive(Lookup(values, i)))

\* the turns of the loop of Case 4 for the indices of those names: at an
\* index that neither keys nor values has, nothing happens
PairsFrom(keys, values, names, endless, result) ==
    IF names = <<>> THEN (IF endless THEN Never ELSE result)
    ELSE KeyOf(keys, values, Tail(names), endless, result, Head(names),
               simplifyNSArchive(Lookup(keys, Head(names))))

PairsWithin(keys, values, bound) ==
    PairsFrom(keys, values, Ascending({name \in IntegerNames(keys) \cup IntegerNames(values) :
                                          Less(NameNumber(name), bound.turns)}),
              bound.endless, Fields(<<>>, <<>>))

\* the loop of Case 4 over i < keys.length
Pairs(keys, values, length) ==
    IF Thrown(length) THEN length
    ELSE PairsWithin(keys, values, TurnsOf(SignedFrom(length.text, 1)))

\* Case 4
SimplifyDictionary(keys, values) == Pairs(keys, values, ToNumber(Lookup(keys, LengthName)))

\* simplified[k] = simplifiedVal unless the value is null or undefined
KeptEntry(obj, names, result, k, val) ==
    IF Thrown(val) THEN val
    ELSE Walk(obj, names, IF Missing(val) THEN result ELSE Put(result, k, val))

\* the loop of Case 5 over Object.entries(obj), then the test for an
\* object without properties
Walk(obj, names, result) ==
    IF names = <<>> THEN (IF OwnKeys(result) = <<>> THEN Null ELSE result)
    ELSE IF StartsWithDollar(Head(names)) THEN Walk(obj, Tail(names), result)
    ELSE KeptEntry(obj, Tail(names), result, Head(names),
               simplifyNSArchive(GetOwn(obj, Head(names))))

\* simplifyNSArchive: the value, or what the call throws
simplifyNSArchive(obj) ==
    IF obj.kind \notin {"array", "object"} THEN (IF obj = Str(<<"$", "n", "u", "l", "l">>) THEN Null ELSE obj)
    ELSE IF ClassNameOf(obj) \in {Str(<<"N", "S", "M", "u", "t", "a", "b", "l", "e", "A", "r", "r", "a", "y">>), Str(<<"N", "S", "A", "r", "r", "a", "y">>)}
    THEN SimplifyArray(OrEmptyArray(Lookup(obj, ObjectsKey)))
    ELSE IF ClassNameOf(obj) \in {Str(<<"N", "S", "M", "u", "t", "a", "b", "l", "e", "D", "i", "c", "t", "i", "o", "n", "a", "r", "y">>), Str(<<"N", "S", "D", "i", "c", "t", "i", "o", "n", "a", "r", "y">>)}
    THEN SimplifyDictionary(OrEmptyArray(Lookup(obj, KeysKey)),
                            OrEmptyArray(Lookup(obj, ObjectsKey)))
    ELSE Walk(obj, OwnKeys(obj), Fields(<<>>, <<>>))

\* highlight.name || other
PropertyOr(highlight, name, other) ==
    IF ToBoolean(Lookup(highlight, name)) THEN Lookup(highlight, name) ELSE other

\* highlight.highlight_text?.['NS.string'] || highlight.highlight_text || ''
HighlightText(text) ==
    IF ~Nullish(text) /\ ToBoolean(Lookup(text, <<"N", "S", ".", "s", "t", "r", "i", "n", "g">>)) THEN Lookup(text, <<"N", "S", ".", "s", "t", "r", "i", "n", "g">>)
    ELSE OrEmptyString(text)

\* decodeHighlights: the record of a highlight; null and undefined have no
\* properties to read
HighlightOf(highlight) ==
    IF Nullish(highlight) THEN TypeError
    ELSE Fields(<<<<"h", "i", "g", "h", "l", "i", "g", "h", "t", "_", "t", "e", "x", "t">>, <<"c", "o", "o", "r", "d", "s", "_", "h", "a", "s", "h">>, <<"m", "a", "s", "k", "L", "i", "s", "t">>, <<"t", "e", "x", "t", "S", "e", "l", "L", "s", "t">>>>,
                <<HighlightText(Lookup(highlight, <<"h", "i", "g", "h", "l", "i", "g", "h", "t", "_", "t", "e", "x", "t">>)),
                  PropertyOr(highlight, <<"c", "o", "o", "r", "d", "s", "_", "h", "a", "s", "h">>, Str(<<>>)),
                  Null,
                  PropertyOr(highlight, <<"t", "e", "x", "t", "S", "e", "l", "L", "s", "t">>, Arr(<<>>))>>)

\* Array.isArray(simplified) ? simplified : [simplified], then the record
\* of each
HighlightsOf(simplified) ==
    LET highlights == IF simplified.kind = "array" THEN simplified.items ELSE <<simplified>>
    IN IF \E i \in 1..Len(highlights) : Thrown(HighlightOf(highlights[i])) THEN TypeError
       ELSE Arr([i \in 1..Len(highlights) |-> HighlightOf(highlights[i])])

\* decodeHighlights: const simplified = this.simplifyNSArchive(resolved);
\* what the call throws is caught, and a call that does not end has no
\* next step
SimplifyNSArchive ==
    /\ decodeStatus = "resolved"
    /\ simplifyNSArchive(resolved).kind # "never"
    /\ IF Thrown(simplifyNSArchive(resolved))
       THEN /\ decodeStatus' = "caught"
            /\ UNCHANGED resolved
       ELSE /\ decodeStatus' = "simplified"
            /\ resolved' = simplifyNSArchive(resolved)
    /\ UNCHANGED <<objectsArray, resolveStack, archiveVars, extractorVars, importerVars, decoderVars>>

\* decodeHighlights: the highlights it returns, [] after a throw
MapHighlights ==
    /\ decodeStatus = "simplified"
    /\ IF Thrown(HighlightsOf(resolved))
       THEN /\ decodeStatus' = "caught"
            /\ UNCHANGED resolved
       ELSE /\ decodeStatus' = "returned"
            /\ resolved' = HighlightsOf(resolved)
    /\ UNCHANGED <<objectsArray, resolveStack, archiveVars, extractorVars, importerVars, decoderVars>>

\* Resolved archives: strings, the "$null" sentinel and null; around values
\* one level less deep, array-class objects of one element or of the sentinel
\* and one element, dictionaries of one pair whose key is a string or the
\* sentinel, objects with one property whose name starts with $ or does not,
\* and plain arrays.
ClassOf(name) == Fields(<<ClassNameKey>>, <<Str(name)>>)

ArrayOf(objects) == Fields(<<ClassKey, ObjectsKey>>, <<ClassOf(<<"N", "S", "A", "r", "r", "a", "y">>), objects>>)

DictionaryOf(keys, objects) ==
    Fields(<<ClassKey, KeysKey, ObjectsKey>>, <<ClassOf(<<"N", "S", "D", "i", "c", "t", "i", "o", "n", "a", "r", "y">>), keys, objects>>)

RECURSIVE ResolvedValues(_)
ResolvedValues(depth) ==
    IF depth = 0 THEN {Str(<<"s">>), Str(<<"$", "n", "u", "l", "l">>), Null}
    ELSE LET inner == ResolvedValues(depth - 1)
         IN inner
            \cup {ArrayOf(Arr(items)) :
                      items \in {<<x>> : x \in inner} \cup {<<Str(<<"$", "n", "u", "l", "l">>), x>> : x \in inner}}
            \cup {DictionaryOf(Arr(<<k>>), Arr(<<x>>)) :
                      k \in {Str(<<"k">>), Str(<<"$", "n", "u", "l", "l">>)}, x \in inner}
            \cup {Fields(<<key>>, <<x>>) : key \in {<<"a">>, <<"$", "x">>}, x \in inner}
            \cup {Arr(<<x>>) : x \in inner}

\* Archives that are not as the archiver writes them: names that start
\* with $ beside others, a string, a number or an object where the
\* objects or the keys of an array-class object or a dictionary are
\* expected, keys that are arrays or objects, keys that are array indices,
\* and the name __proto__.
OddValues ==
    LET s == Str(<<"s">>)
        t == Str(<<"t">>)
    IN {Fields(<<<<"$", "t", "o", "p">>, <<"k", "e", "e", "p">>>>, <<s, s>>),
        Fields(<<<<"$", "t", "o", "p">>>>, <<s>>),
        Fields(<<<<"$">>, <<"a">>>>, <<s, t>>),
        Fields(<<<<"b">>, <<"1">>, <<"0">>>>, <<s, t, s>>),
        Fields(<<ProtoName, <<"a">>>>, <<Fields(<<<<"b">>>>, <<s>>), t>>),
        Fields(<<ProtoName>>, <<ArrayOf(Arr(<<s>>))>>),
        ArrayOf(s),
        ArrayOf(Integer(1)),
        ArrayOf(Fields(<<LengthName, <<"0">>>>, <<Integer(1), s>>)),
        ArrayOf(Undefined),
        DictionaryOf(Str(<<"a", "b">>), Arr(<<s, t>>)),
        DictionaryOf(Arr(<<Str(<<"k">>)>>), s),
        DictionaryOf(Arr(<<Str(<<"b">>), Str(<<"1">>)>>), Arr(<<s, t>>)),
        DictionaryOf(Arr(<<Str(<<"k">>), Str(<<"k">>)>>), Arr(<<s, t>>)),
        DictionaryOf(Arr(<<ArrayOf(Arr(<<s, t>>))>>), Arr(<<s>>)),
        DictionaryOf(Arr(<<Fields(<<<<"a">>>>, <<s>>)>>), Arr(<<s>>)),
        DictionaryOf(Arr(<<Fields(<<<<"t", "o", "S", "t", "r", "i", "n", "g">>>>, <<s>>)>>), Arr(<<s>>)),
        DictionaryOf(Arr(<<Integer(1), Bool(TRUE)>>), Arr(<<s, t>>)),
        DictionaryOf(Arr(<<Str(ProtoName), Str(<<"a">>)>>), Arr(<<Arr(<<s>>), t>>)),
        DictionaryOf(Fields(<<LengthName, <<"1">>>>, <<Str(<<"2">>), Str(<<"k">>)>>),
                     Arr(<<s, t>>)),
        DictionaryOf(Fields(<<LengthName>>, <<Num(InfinityText)>>), Arr(<<s>>)),
        DictionaryOf(Integer(5), Arr(<<s>>)),
        DictionaryOf(Arr(<<Fields(<<ProtoName, LengthName>>,
                                  <<ArrayOf(Arr(<<>>)), Num(DigitText(PowerOfTwo(32)))>>)>>),
                     Arr(<<s>>)),
        DictionaryOf(Arr(<<Fields(<<ProtoName, LengthName>>,
                                  <<ArrayOf(Arr(<<>>)), Integer(3)>>)>>), Arr(<<s>>)),
        DictionaryOf(Arr(<<Str(<<"k">>)>>), Arr(<<>>))}

InitSimplify ==
    /\ objectsArray = <<>>
    /\ resolveStack = <<>>
    /\ resolved \in ResolvedValues(MaxDepth) \cup OddValues
    /\ decodeStatus = "resolved"
    /\ ArchiveIdle
    /\ strictMode = FALSE
    /\ ExtractorIdle
    /\ ImporterIdle
    /\ DecoderIdle

NextSimplify ==
    \/ SimplifyNSArchive
    \/ MapHighlights

SpecSimplify == InitSimplify /\ [][NextSimplify]_vars

\* no null is an element of a list or a value of a map, at any depth, and
\* no map has the key that null makes
RECURSIVE NoNullInside(_)
NoNullInside(value) ==
    /\ \A i \in 1..Len(value.items) : value.items[i] # Null /\ NoNullInside(value.items[i])
    /\ value.kind = "object" => \A i \in 1..Len(value.keys) : value.keys[i] # <<"n", "u", "l", "l">>

\* C22: a simplified value holds no null as a list element or as a map key
\* or value, at any depth: the "$null" sentinel has become null, and nulls
\* are dropped from array-class objects, dictionaries and other objects
C22_NoNullInSimplified ==
    decodeStatus = "simplified" => NoNullInside(resolved)

C22_Witness ==
    /\ decodeStatus = "simplified"
    /\ resolved = Arr(<<Fields(<<>>, <<>>)>>)

\* ------------------------------------------------ claims: group classification
\* the classification of a record's topic, "unknown" without one
ClassificationOf(n) ==
    LET topicType == IF n.topicId # "" THEN getTopicType(topicClassification, n.topicId)
                     ELSE NoTopicType
    IN IF topicType = NoTopicType THEN "unknown" ELSE topicType

\* C23 as stated: every group's classification is the classification of its
\* master record's topic, for groups of one record, for groups of several,
\* and for the groups the deduplicator rebuilds around the master it selects
C23_GroupTypeIsMastersTopicType ==
    /\ MastersIdentified =>
           \A i \in 1..Len(contentGroups) :
               contentGroups[i].masterNote # NoNote
                   => contentGroups[i].groupType = ClassificationOf(MasterOf(contentGroups[i]))
    /\ pc = "done" =>
           \A i \in 1..Len(deduplicatedGroups) :
               deduplicatedGroups[i].groupType
                   = ClassificationOf(MasterOf(deduplicatedGroups[i]))

\* ------------------------------------------------ dates
MaxDatedNotes == 2

\* dateOffset, 978307200000 milliseconds, in seconds
DateOffsetSeconds == 978307200

\* A number of seconds with a fraction in milliseconds, or no value; the same
\* shape holds a Date's time value, which is in milliseconds.
Seconds(s, ms) == [present |-> TRUE, seconds |-> s, millis |-> ms]
NoValue == [present |-> FALSE, seconds |-> 0, millis |-> 0]

\* the value is truthy: present, and not 0
Truthy(raw) == raw.present /\ ~(raw.seconds = 0 /\ raw.millis = 0)

\* new Date(raw * 1000 + dateOffset) under `if (raw)`
DateFromRow(raw) ==
    IF Truthy(raw) THEN Seconds(raw.seconds + DateOffsetSeconds, raw.millis) ELSE NoValue

\* MNBookNoteImpl.fromDatabaseRow, for a row with an id and its two dates
DatedNote(row) ==
    [noteDate |-> DateFromRow(row.ZNOTE_DATE),
     highlightDate |-> DateFromRow(row.ZHIGHLIGHT_DATE)] @@ MappedNote(row.noteId)

\* processNotes, one turn of the loop for a row with dates
processDatedRow(rows) ==
    /\ pc = "processNotes"
    /\ \E row \in rows :
          /\ booknotesData' = Append(booknotesData, row)
          /\ notes' = NotesSet(notes, ExtractTextFeatures(DatedNote(row)))
    /\ UNCHANGED <<topicClassification, topics, mediaCollection, unionFind, contentGroups, deduplicatedGroups,
                   deduplicationStats, pc>>
    /\ UNCHANGED <<resolverVars, archiveVars, strictMode, importerVars, decoderVars>>

\* Rows whose dates vary: each of ZNOTE_DATE and ZHIGHLIGHT_DATE is absent,
\* 0 (2001-01-01), a second or half a second after or before it, or a date
\* in 2023.
DatedRows ==
    LET raws == {NoValue, Seconds(0, 0), Seconds(1, 0), Seconds(0, 500), Seconds(-1, 0),
                 Seconds(700000000, 0)}
    IN IF Len(booknotesData) >= MaxDatedNotes THEN {}
       ELSE {[noteId |-> NoteId(Len(booknotesData) + 1), ZNOTE_DATE |-> a, ZHIGHLIGHT_DATE |-> b]
                : a \in raws, b \in raws}

ProcessDatedRow == processDatedRow(DatedRows)

\* The rows of a ZMEDIA table: none, an image, an image and a row without
\* data, or two rows of one hash of which the second is no image.
MediaRows ==
    LET png == Blob("ArrayBuffer", PngSignature \o <<13, 10, 26, 10>>)
    IN {<<>>,
        <<[ZMD5 |-> "m1", ZDATA |-> png]>>,
        <<[ZMD5 |-> "m1", ZDATA |-> png], [ZMD5 |-> "m2", ZDATA |-> NoBlob]>>,
        <<[ZMD5 |-> "m1", ZDATA |-> png], [ZMD5 |-> "m1", ZDATA |-> Blob("ArrayBuffer", <<0>>)]>>}

ProcessMediaAndTopics == processTopics(MediaRows, {<<>>})

NextDates ==
    \/ ProcessMediaAndTopics
    \/ ProcessDatedRow

SpecDates == Init /\ [][NextDates]_vars

\* C24 as stated: every raw timestamp present on a row, 0 included, is
\* mapped to the instant that many seconds plus 978307200 seconds after the
\* Unix epoch
C24_TimestampOffset ==
    \A i \in 1..Len(booknotesData) :
        LET row == booknotesData[i]
            note == NotesGet(notes, row.noteId)
            Mapped(raw, date) ==
                raw.present => date = Seconds(raw.seconds + 978307200, raw.millis)
        IN /\ Mapped(row.ZNOTE_DATE, note.noteDate)
           /\ Mapped(row.ZHIGHLIGHT_DATE, note.highlightDate)

\* ------------------------------------------------ inputs: free text
MaxTokens == 3

\* what a text is made of: a marker alone, a tag under either marker, a
\* word, a blank, an ideographic space, a line break, a reference to note A
Tokens ==
    {<<Hash>>, <<Hash, "a">>, <<WideHash, "a">>, <<"b">>, <<" ">>, <<"U+3000">>, <<"\n">>,
     LinkPrefix \o <<"A">>}

RECURSIVE TextsOf(_)
TextsOf(n) ==
    IF n = 0 THEN {<<>>}
    ELSE LET shorter == TextsOf(n - 1)
         IN shorter \cup {t \o k : t \in shorter, k \in Tokens}

\* "#Example\nsome text\n＃OnlyDue"
HashtagExample ==
    <<"#", "E", "x", "a", "m", "p", "l", "e", "\n", "s", "o", "m", "e", " ", "t", "e", "x", "t", "\n", WideHash, "O", "n", "l", "y", "D", "u", "e">>

\* "see marginnote4app://note/ABC123 for details"
LinkExample ==
    <<"s", "e", "e", " ">> \o LinkPrefix
        \o <<"A", "B", "C", "1", "2", "3", " ", "f", "o", "r", " ", "d", "e", "t", "a", "i", "l", "s">>

\* The rows of a batch of one note whose ZNOTES_TEXT is any text of at most
\* MaxTokens tokens or one of the two examples.
TextNotes ==
    IF booknotesData # <<>> THEN {}
    ELSE {[MappedNote(NoteId(1)) EXCEPT !.notesText = text]
             : text \in TextsOf(MaxTokens) \cup {HashtagExample, LinkExample}}

ProcessTextNote == processNote(TextNotes)

NextText ==
    \/ ProcessTopics
    \/ ProcessTextNote

SpecText == Init /\ [][NextText]_vars

\* ------------------------------------------------ claims: text scanning
IsMarker(c) == c \in {"#", WideHash}

IsBlankOrMarker(c) == IsMarker(c) \/ c \in WhiteSpace

\* The tags of a text, each with its place: every marker followed by a
\* character that is neither blank nor a marker introduces a tag, which
\* runs up to the next blank or marker.
TagOccurrences(text) ==
    LET len == Len(text)
    IN {[at |-> p[1], tag |-> SubSeq(text, p[1] + 1, p[2])]
           : p \in {q \in (1..len) \X (1..len) :
                       /\ q[1] < q[2]
                       /\ IsMarker(text[q[1]])
                       /\ \A k \in (q[1] + 1)..q[2] : ~IsBlankOrMarker(text[k])
                       /\ q[2] < len => IsBlankOrMarker(text[q[2] + 1])}}

\* the place where the tag first occurs
FirstSeen(occurrences, tag) ==
    LET places == {o.at : o \in {x \in occurrences : x.tag = tag}}
    IN CHOOSE p \in places : \A q \in places : p <= q

\* C25 as stated: the hashtags of a text are its tags, each once, each
\* without the marker (# or the full-width sign) that introduces it, in the
\* order in which they first occur; "#Example\nsome text\n＃OnlyDue" gives
\* Example, OnlyDue
C25_HashtagsDistinctInOrder ==
    \A r \in 1..Len(booknotesData) :
        LET text == booknotesData[r].notesText
            hashtags == NotesGet(notes, booknotesData[r].noteId).hashtags
            occurrences == TagOccurrences(text)
        IN /\ \A a, b \in 1..Len(hashtags) : hashtags[a] = hashtags[b] => a = b
           /\ \A a \in 1..Len(hashtags) : ~IsMarker(hashtags[a][1])
           /\ Range(hashtags) = {o.tag : o \in occurrences}
           /\ \A a, b \in 1..Len(hashtags) :
                  a < b => FirstSeen(occurrences, hashtags[a])
                               < FirstSeen(occurrences, hashtags[b])
           /\ text = HashtagExample
                  => hashtags = <<<<"E", "x", "a", "m", "p", "l", "e">>,
                                  <<"O", "n", "l", "y", "D", "u", "e">>>>

\* C26 as stated: every reference marginnote4app://note/<id> of a text
\* gives the id alone, at the start of a line or inside it and whatever
\* follows it; "see marginnote4app://note/ABC123 for details" gives ABC123
C26_LinkIdAlone ==
    \A r \in 1..Len(booknotesData) :
        LET text == booknotesData[r].notesText
            links == NotesGet(notes, booknotesData[r].noteId).internalLinks
        IN /\ \A k \in 1..Len(links) :
                  \A c \in 1..Len(links[k]) : links[k][c] \in IdChars
           /\ text = LinkExample => links = <<<<"A", "B", "C", "1", "2", "3">>>>

\* ------------------------------------------------ MarginNoteImporter
MaxImports == 2

MaxWarnings == 1

\* The milliseconds that may pass between two readings of the clock.
Elapsed == {0, 3000, 5000}

\* the directories a caller names; "" stands for no directory
Directories == {"", "out"}

\* durationSeconds of a report: undefined, or a number
NoDuration == [defined |-> FALSE, seconds |-> <<>>]

\* (endTime.getTime() - startTime.getTime()) / 1000
DurationSeconds(milliseconds) ==
    [defined |-> TRUE,
     seconds |-> NumberText(milliseconds < 0,
                            NaturalDigits(IF milliseconds < 0 THEN -milliseconds
                                          ELSE milliseconds),
                            -3)]

\* a result without importReport
NoReport ==
    [present |-> FALSE, durationSeconds |-> NoDuration, success |-> FALSE, warnings |-> 0,
     errors |-> 0]

\* generateImportReport, importSummary
generateImportReport(stats) ==
    [present |-> TRUE,
     durationSeconds |-> IF stats.ended THEN DurationSeconds(stats.endTime - stats.startTime)
                         ELSE NoDuration,
     success |-> stats.errors = 0,
     warnings |-> stats.warnings,
     errors |-> stats.errors]

\* convertContentGroups: a note per master note that has content, keyed by
\* its id
ObsidianNoteIds(noteMap, groups) ==
    {g.masterNote : g \in {x \in Range(groups) :
                              /\ x.masterNote # NoNote
                              /\ hasContent(NotesGet(noteMap, x.masterNote))}}

\* statistics: this.importStats: the statistics of every result are the one
\* object of the importer, whatever it holds now
StatisticsOf(result) == importStats

\* updateConfig: { ...this.config, ...newConfig }, between two calls
UpdateConfig ==
    /\ pc \in {"constructed", "returned"}
    /\ \E strictDecoding \in BOOLEAN, outputDirectory \in Directories :
          config' = [strictDecoding |-> strictDecoding,
                     outputDirectory |-> IF outputDirectory = "" THEN config.outputDirectory
                                         ELSE outputDirectory]
    /\ config' # config
    /\ UNCHANGED <<importStats, importResults, importCalls, now>>
    /\ UNCHANGED <<resolverVars, archiveVars, extractorVars, decoderVars>>

\* importMarginNoteData, entry: the start time is read, the directory given
\* becomes that of the configuration, and step 1 builds a new
\* ContentExtractor with the strictDecoding of the configuration
ImportMarginNoteData ==
    /\ pc \in {"constructed", "returned"}
    /\ Len(importResults) < MaxImports
    /\ \E elapsed \in Elapsed :
          /\ now' = now + elapsed
          /\ importStats' = [importStats EXCEPT !.startTime = now + elapsed,
                                                !.filesProcessed = 1]
    /\ \E outputDirectory \in Directories :
          config' = IF outputDirectory # "" THEN [config EXCEPT !.outputDirectory = outputDirectory]
                    ELSE config
    /\ strictMode' = config.strictDecoding
    /\ booknotesData' = <<>>
    /\ topicClassification' = NewTopicClassification
    /\ topics' = <<>>
    /\ mediaCollection' = <<>>
    /\ notes' = <<>>
    /\ unionFind' = NewUnionFind
    /\ contentGroups' = <<>>
    /\ deduplicatedGroups' = <<>>
    /\ deduplicationStats' = NewDeduplicationStats
    /\ pc' = "processTopics"
    /\ UNCHANGED <<resolverVars, archiveVars, importResults, importCalls, decoderVars>>

\* what the call was given and made, and the clock readings it took
CallRecord(returned) ==
    [booknotes |-> booknotesData, notes |-> notes, groups |-> deduplicatedGroups,
     started |-> importStats.startTime, returned |-> returned]

\* importMarginNoteData, steps 3 to 5 and the return: the report is built
\* from importStats, and then the end time is read
ReturnImportResult ==
    /\ pc = "done"
    /\ \E elapsed \in Elapsed :
          LET stats == [importStats EXCEPT
                           !.notesImported = Cardinality(ObsidianNoteIds(notes, deduplicatedGroups))]
          IN /\ importResults' = Append(importResults,
                    [success |-> TRUE, outputDirectory |-> config.outputDirectory,
                     importReport |-> generateImportReport(stats)])
             /\ importCalls' = Append(importCalls, CallRecord(now + elapsed))
             /\ importStats' = [stats EXCEPT !.ended = TRUE, !.endTime = now + elapsed]
             /\ now' = now + elapsed
    /\ pc' = "returned"
    /\ UNCHANGED <<booknotesData, topicClassification, topics, mediaCollection, notes, unionFind, contentGroups,
                   deduplicatedGroups, deduplicationStats, config>>
    /\ UNCHANGED <<resolverVars, archiveVars, strictMode, decoderVars>>

\* importMarginNoteData, catch: step 1 threw, the error is counted, the end
\* time is read and the result has no report.  databaseData is null or
\* has no media, and nothing was extracted; or it has no topics or no
\* booknotes, or a row of the booknotes is null, and the extractor throws
\* with what it has extracted so far.
FailImport ==
    /\ pc \in {"processTopics", "processNotes"}
    /\ \E elapsed \in Elapsed :
          /\ importResults' = Append(importResults,
                 [success |-> FALSE, outputDirectory |-> "", importReport |-> NoReport])
          /\ importCalls' = Append(importCalls, CallRecord(now + elapsed))
          /\ importStats' = [importStats EXCEPT !.errors = @ + 1, !.ended = TRUE,
                                                !.endTime = now + elapsed]
          /\ now' = now + elapsed
    /\ pc' = "returned"
    /\ UNCHANGED <<booknotesData, topicClassification, topics, mediaCollection, notes, unionFind, contentGroups,
                   deduplicatedGroups, deduplicationStats, config>>
    /\ UNCHANGED <<resolverVars, archiveVars, strictMode, decoderVars>>

\* prepareOutputFiles, called from outside between two calls: every note
\* whose output fails is a warning
PrepareOutputFiles ==
    /\ pc \in {"constructed", "returned"}
    /\ \E failing \in 0..MaxWarnings :
          /\ importStats.warnings + failing <= MaxWarnings
          /\ importStats' = [importStats EXCEPT !.warnings = @ + failing]
    /\ importStats' # importStats
    /\ UNCHANGED <<importResults, importCalls, now, config>>
    /\ UNCHANGED <<resolverVars, archiveVars, extractorVars, decoderVars>>

\* new MarginNoteImporter(config): the configuration given is laid over
\* the defaults; nothing was called yet
InitImporter ==
    /\ ResolverIdle
    /\ ArchiveIdle
    /\ strictMode = FALSE
    /\ booknotesData = <<>>
    /\ topicClassification = NewTopicClassification
    /\ topics = <<>>
    /\ mediaCollection = <<>>
    /\ notes = <<>>
    /\ unionFind = NewUnionFind
    /\ contentGroups = <<>>
    /\ deduplicatedGroups = <<>>
    /\ deduplicationStats = NewDeduplicationStats
    /\ pc = "constructed"
    /\ importStats = NewImportStats
    /\ importResults = <<>>
    /\ importCalls = <<>>
    /\ now = 0
    /\ \E strictDecoding \in BOOLEAN, outputDirectory \in Directories :
          config = [strictDecoding |-> strictDecoding,
                    outputDirectory |-> IF outputDirectory = "" THEN DefaultConfig.outputDirectory
                                        ELSE outputDirectory]
    /\ DecoderIdle

\* The rows of a call: no row, or one row, with or without a title, that is
\* alone or names an external id.
ImportedNotes ==
    IF booknotesData # <<>> THEN {}
    ELSE {[MappedNote(NoteId(1)) EXCEPT !.noteTitle = t, !.evernoteId = e]
             : t \in {<<>>, <<"t">>}, e \in {<<>>, UnknownId}}

ProcessImportedNote == processNote(ImportedNotes)

NextImporter ==
    \/ UpdateConfig
    \/ PrepareOutputFiles
    \/ ImportMarginNoteData
    \/ FailImport
    \/ ProcessTopics
    \/ ProcessImportedNote
    \/ GroupRelatedContent
    \/ IdentifyMasterNotes
    \/ ProcessContentFeatures
    \/ DeduplicateContent
    \/ ReturnImportResult

SpecImporter == InitImporter /\ [][NextImporter]_vars

\* C27 as stated: what a call returns does not depend on the calls before
\* it: the same rows give the same records and groups, and the report's
\* success flag, error count and duration are those of the call itself
C27_ImportIndependentOfEarlierCalls ==
    /\ \A i, j \in 1..Len(importResults) :
           importCalls[i].booknotes = importCalls[j].booknotes
               /\ importResults[i].success /\ importResults[j].success
               => /\ importCalls[i].notes = importCalls[j].notes
                  /\ importCalls[i].groups = importCalls[j].groups
    /\ \A i \in 1..Len(importResults) :
           LET report == importResults[i].importReport
           IN importResults[i].success
                  => /\ report.success
                     /\ report.errors = 0
                     /\ report.durationSeconds
                            = DurationSeconds(importCalls[i].returned - importCalls[i].started)

\* ------------------------------------------------ inputs: decoded links
\* an XML plist whose one string is a reference to the note
LinkPlist(id) ==
    TextEncode(<<"<", "s", "t", "r", "i", "n", "g", ">">> \o LinkPrefix \o id
                   \o <<"<", "/", "s", "t", "r", "i", "n", "g", ">">>)

\* Rows whose ZNOTES column is absent or an XML plist with a reference to
\* the first or the second note; the row has an excerpt text or none.
LinkRows ==
    IF Len(booknotesData) >= MaxBlobNotes THEN {}
    ELSE {[noteId |-> NoteId(Len(booknotesData) + 1), ZHIGHLIGHT_TEXT |-> text,
           ZEXCERPT_PIC |-> FALSE, ZNOTES |-> znotes, ZHIGHLIGHTS |-> NoBlob]
             : text \in {<<>>, <<"a">>},
               znotes \in {NoBlob} \cup {Blob("ArrayBuffer", LinkPlist(NoteId(i)))
                                            : i \in 1..MaxBlobNotes}}

ProcessLinkRow == processRow(LinkRows)

NextLinks ==
    \/ ProcessTopics
    \/ ProcessLinkRow
    \/ GroupRelatedContent
    \/ IdentifyMasterNotes
    \/ ProcessContentFeatures
    \/ DeduplicateContent

SpecLinks == InitDecoding /\ [][NextLinks]_vars

\* C28 as stated: the link ids that a row's decoded ZNOTES supplies are in
\* the link list of the record the row is mapped to, with or without text on
\* the row
C28_DecodedLinksKept ==
    \A r \in 1..Len(booknotesData) :
        LET row == booknotesData[r]
            decoded == decodeZNotes(row.ZNOTES, strictMode)
        IN row.ZNOTES # NoBlob /\ decoded.error = "" /\ NotesHas(notes, row.noteId)
               => \A k \in 1..Len(decoded.value.links) :
                      Has(NotesGet(notes, row.noteId).internalLinks, decoded.value.links[k])

\* ------------------------------------------------ inputs: integer objects
\* parsePlist on the buffer
ParsePlist ==
    /\ ~plistData.parsed
    /\ plistData' = [parsed |-> TRUE, objects |-> parsePlist(binaryData)]
    /\ UNCHANGED <<binaryData, resolverVars, archiveVars, extractorVars, importerVars>>

\* a binary plist of one integer object: the header, the marker 0x10 + low,
\* the 2^low bytes of the integer, a trailer
IntegerPlist(low, bytes) == BplistMagic \o <<48, 48>> \o <<16 + low>> \o bytes \o Zeros(32)

\* Buffers of one integer of 1, 2, 4 or 8 bytes, each byte 00, 80 or FF.
InitPlist ==
    /\ ResolverIdle
    /\ ArchiveIdle
    /\ strictMode = FALSE
    /\ ExtractorIdle
    /\ ImporterIdle
    /\ binaryData \in UNION {{IntegerPlist(low, bytes) : bytes \in [1..(2 ^ low) -> {0, 128, 255}]}
                                : low \in 0..3}
    /\ plistData = [parsed |-> FALSE, objects |-> <<>>]

SpecPlist == InitPlist /\ [][ParsePlist]_vars

\* the bytes of the integer object of the buffer
IntegerBytes == SubSeq(binaryData, 10, Len(binaryData) - 32)

\* the big-endian bytes, size of them, of a number below 2^31
BigEndian(n, size) ==
    [i \in 1..size |-> IF size - i >= 4 THEN 0 ELSE (n \div (256 ^ (size - i))) % 256]

\* C30 as stated: the linear scan decodes an integer object of 1, 2, 4 or
\* 8 bytes to the big-endian value of its bytes, values of 2^31 and above
\* included
C30_IntegerIsBigEndianValue ==
    plistData.parsed
        => /\ Len(plistData.objects) = 1
           /\ plistData.objects[1].kind = "number"
           /\ plistData.objects[1].text[1] # "-"
           /\ BigEndian(ParseDigits(0, plistData.objects[1].text), Len(IntegerBytes))
                  = IntegerBytes

====
